---- MODULE Spec2Model ----
(***************************************************************************)
(* A model of flexible_embedding.py: path flattening, pattern compilation, *)
(* per-path classification, the chunker, the embedding and row-store       *)
(* retry loops and the batch pipeline driver process_flexible_task.        *)
(*                                                                         *)
(* Strings are sequences of one-character strings, so that slicing,        *)
(* lower-casing, stripping and regular-expression matching are computed    *)
(* rather than assumed.  A Python dict is a sequence of <<key, value>>     *)
(* pairs with distinct keys, in insertion order.                           *)
(***************************************************************************)
EXTENDS Integers, Sequences, FiniteSets, TLC

VARIABLES
    \* ---- decide_chunk_or_meta_for_item_paths, called on its own
    d_pc, d_item, d_threshold, d_force_chunk, d_force_meta,
    d_exclude_chunk, d_exclude_meta, d_metadata_map, d_result,
    \* ---- chunk_text, called on its own
    ct_pc,             \* "idle", "call", "loop", "done" or "raised"
    ct_text, ct_chunk_size, ct_chunk_overlap, ct_step, ct_start, ct_chunks,
    ct_overlap_arg,    \* the chunk_overlap argument, before line 116 rebinds it
    ct_windows,        \* history: <<start, end, appended>> of every slice taken
    \* ---- process_flexible_task
    pc,                \* "idle", "start", "fetch", "items", "source", "chunk",
                       \* "embed", "records", "insert", "done" or "failed"
    data,              \* the request: the dict handed to the task
    source,            \* what file_url serves
    conf,              \* the locals of lines 436-459
    json_data, item_idx,
    chunk_sources, base_meta, meta_origin, src_idx,
    chunks, chunk_idx, \* the list chunk_text returned and the position in it
    batched_chunks, batched_meta_list, total_uploaded,
    flush_site,        \* "loop" (line 521), "final" (line 543) or "direct"
    embeddings, records,
    \* ---- batch_embed_text
    be_chunks, be_max_batch_size, be_i, be_attempt, be_backoff, be_embeddings,
    be_zeroed,         \* history: the starts i of the sub-batches zero-filled
    \* ---- insert_into_supabase
    ins_batch_size, ins_i, ins_attempt, ins_backoff,
    \* ---- history of a run
    emitted,           \* every chunk appended at line 517, with its item
    handed,            \* every record passed to insert_into_supabase
    flushes,           \* one entry per flush, written when the flush is over
    store_log,         \* one entry per sub-batch posted: stored or dropped
    log,               \* the tags of the error and info lines logged
    \* ---- main.py: one request to /upload-flexible or /upload-flexible-smart
    h_pc,              \* "idle", "request" or "responded"
    h_endpoint, h_request,
    h_response,        \* the status and, on a 400, the missing fields
    h_thread,          \* the target of the thread started, or "none"
    \* ---- a helper called on its own: _compile_patterns and _match_any,
    \* ---- flatten_item, _compress_meta_keys
    u_pc,              \* "idle", "call", then the helper's steps, then "done"
    u_args,            \* the arguments of the call
    u_ret,             \* what the helper has returned so far
    \* ---- format_video/routes.py: the video jobs
    v_requests,        \* the requests to /format still to come
    v_limit,           \* how many workers the run lets be at work at once
    v_clock,           \* the number of jobs created: the next id and created_at
    v_db,              \* the table format_jobs: id -> row
    v_worker,          \* the threads _run_format_job: id -> its position and locals
    v_files,           \* OUTPUT_DIR: file name -> the job that wrote the file
    v_accepted,        \* history: the ids answered with 202
    v_reply,           \* the last answer of format_status: id and status code
    v_trans            \* history: <<id, from, to>> of every committed status change

d_vars == <<d_pc, d_item, d_threshold, d_force_chunk, d_force_meta,
            d_exclude_chunk, d_exclude_meta, d_metadata_map, d_result>>

ct_vars == <<ct_pc, ct_text, ct_chunk_size, ct_chunk_overlap, ct_step,
             ct_start, ct_chunks, ct_overlap_arg, ct_windows>>

\* the request and what the task parsed from it
req_vars == <<data, source, conf, json_data>>

\* the loops of lines 481-518
loop_vars == <<item_idx, chunk_sources, base_meta, meta_origin, src_idx,
               chunks, chunk_idx>>

acc_vars == <<batched_chunks, batched_meta_list>>

be_vars == <<be_chunks, be_max_batch_size, be_i, be_attempt, be_backoff,
             be_embeddings, be_zeroed>>

ins_vars == <<ins_batch_size, ins_i, ins_attempt, ins_backoff>>

r_vars == <<pc, req_vars, loop_vars, acc_vars, total_uploaded, flush_site,
            embeddings, records, be_vars, ins_vars,
            emitted, handed, flushes, store_log, log>>

h_vars == <<h_pc, h_endpoint, h_request, h_response, h_thread>>

u_vars == <<u_pc, u_args, u_ret>>

v_vars == <<v_requests, v_limit, v_clock, v_db, v_worker, v_files, v_accepted,
            v_reply, v_trans>>

vars == <<d_vars, ct_vars, r_vars, h_vars, u_vars, v_vars>>

-----------------------------------------------------------------------------
(* Bounds of the model *)

\* thresholds are drawn from 0..MaxThreshold
MaxThreshold == 1
\* leaf strings of the classified items have at most this many characters
MaxValLen == 2
\* the chunker is run on every text of at most MaxTextLen characters ...
MaxTextLen == 4
\* ... and on texts of LongTextLen characters
LongTextLen == 25
\* chunk sizes are drawn from 0..MaxChunkSize, overlaps from -1..MaxChunkSize+1
MaxChunkSize == 10
\* a run is given the first 0..MaxItems items of each of its item orders
MaxItems == 3
\* each of the two long fields of an item of a run has BigLen characters
BigLen == 65
\* batch_embed_text, called on its own, is given at most MaxEmbedChunks chunks
MaxEmbedChunks == 4
\* ... and a max_batch_size from 1..MaxEmbedBatch
MaxEmbedBatch == 3
\* insert_into_supabase, called on its own, is given a batch_size from
\* 1..MaxInsertBatch
MaxInsertBatch == 2

-----------------------------------------------------------------------------
(* Strings *)

IsSpace(c) == c = " "

\* str.lower(), one character
LowerChar(c) ==
    CASE c = "A" -> "a"
      [] c = "M" -> "m"
      [] c = "T" -> "t"
      [] c = "K" -> "k"
      [] OTHER -> c

\* str.lower()
Lower(s) == [i \in 1..Len(s) |-> LowerChar(s[i])]

\* bool(s.strip()) is False
IsBlank(s) == \A i \in 1..Len(s) : IsSpace(s[i])

\* s.strip()
Strip(s) ==
    IF IsBlank(s) THEN <<>>
    ELSE LET lo == CHOOSE i \in 1..Len(s) :
                     ~IsSpace(s[i]) /\ \A j \in 1..(i-1) : IsSpace(s[j])
             hi == CHOOSE i \in 1..Len(s) :
                     ~IsSpace(s[i]) /\ \A j \in (i+1)..Len(s) : IsSpace(s[j])
         IN  SubSeq(s, lo, hi)

\* s.endswith(suffix)
EndsWith(s, suffix) ==
    /\ Len(suffix) <= Len(s)
    /\ SubSeq(s, Len(s) - Len(suffix) + 1, Len(s)) = suffix

\* s.startswith(prefix)
StartsWith(s, prefix) ==
    /\ Len(prefix) <= Len(s)
    /\ SubSeq(s, 1, Len(prefix)) = prefix

\* s.split(".")[-1]
LastDotSegment(s) ==
    IF \E i \in 1..Len(s) : s[i] = "."
    THEN LET d == CHOOSE i \in 1..Len(s) :
                    s[i] = "." /\ \A j \in (i+1)..Len(s) : s[j] # "."
         IN  SubSeq(s, d + 1, Len(s))
    ELSE s

DigitChars == <<"0", "1", "2", "3", "4", "5", "6", "7", "8", "9">>

IsDigit(c) == \E i \in 1..10 : DigitChars[i] = c

\* str(i) of a non-negative int
RECURSIVE IntToStr(_)
IntToStr(i) ==
    IF i < 10 THEN <<DigitChars[i + 1]>>
    ELSE IntToStr(i \div 10) \o <<DigitChars[(i % 10) + 1]>>

-----------------------------------------------------------------------------
(* Python dicts: insertion-ordered, d[k] = v keeps the position of an     *)
(* existing key                                                            *)

DictHas(d, k) == \E i \in 1..Len(d) : d[i][1] = k

DictGet(d, k) == d[CHOOSE i \in 1..Len(d) : d[i][1] = k][2]

DictSet(d, k, v) ==
    IF DictHas(d, k)
    THEN [i \in 1..Len(d) |-> IF d[i][1] = k THEN <<k, v>> ELSE d[i]]
    ELSE Append(d, <<k, v>>)

DictKeys(d) == {d[i][1] : i \in 1..Len(d)}

\* d.update(e)
RECURSIVE DictUpdate(_, _)
DictUpdate(d, e) ==
    IF e = <<>> THEN d
    ELSE DictUpdate(DictSet(d, e[1][1], e[1][2]), Tail(e))

-----------------------------------------------------------------------------
(* Parsed JSON values *)

JNull == [t |-> "null", s |-> <<>>, kids |-> <<>>]
JStr(s) == [t |-> "str", s |-> s, kids |-> <<>>]
\* fields: a sequence of <<key, value>> with distinct keys
JObj(fields) == [t |-> "dict", s |-> <<>>, kids |-> fields]
\* elems: a sequence of values
JArr(elems) == [t |-> "list", s |-> <<>>, kids |-> elems]

\* _stringify on the leaves flatten_item hands it
stringify(v) ==
    IF v.t = "null" THEN <<>> ELSE v.s

RECURSIVE flatten_item(_, _)
RECURSIVE FlattenDict(_, _, _, _)
RECURSIVE FlattenList(_, _, _, _)

flatten_item(obj, parent) ==
    IF obj.t = "dict" THEN FlattenDict(obj.kids, parent, 1, <<>>)
    ELSE IF obj.t = "list" THEN FlattenList(obj.kids, parent, 1, <<>>)
    ELSE <<<<parent, stringify(obj)>>>>

\* for k, v in obj.items(): out.update(flatten_item(v, key))
FlattenDict(fields, parent, i, out) ==
    IF i > Len(fields) THEN out
    ELSE LET k == fields[i][1]
             key == IF parent # <<>> THEN parent \o <<".">> \o k ELSE k
         IN  FlattenDict(fields, parent, i + 1,
                         DictUpdate(out, flatten_item(fields[i][2], key)))

\* for i, v in enumerate(obj): out.update(flatten_item(v, key))
FlattenList(elems, parent, i, out) ==
    IF i > Len(elems) THEN out
    ELSE LET key == parent \o <<"[">> \o IntToStr(i - 1) \o <<"]">>
         IN  FlattenList(elems, parent, i + 1,
                         DictUpdate(out, flatten_item(elems[i], key)))

-----------------------------------------------------------------------------
(* Compiled patterns.  A compiled regular expression is the set of its     *)
(* alternatives, each a sequence of atoms: a literal character, ".*" or    *)
(* "\d+".  No flag is given to re.compile, so "." matches every character *)
(* but the line break.                                                     *)

Lit(c) == [k |-> "lit", c |-> c]
AnyStar == [k |-> "any", c |-> ""]
Digits == [k |-> "digits", c |-> ""]

\* re.escape(tok): every character of tok, matched literally
Escape(tok) == [i \in 1..Len(tok) |-> Lit(tok[i])]

\* p.fullmatch(s) for one alternative
RECURSIVE FullMatchSeq(_, _)
FullMatchSeq(re, s) ==
    IF re = <<>> THEN s = <<>>
    ELSE LET h == Head(re)
             rest(n) == SubSeq(s, n + 1, Len(s))
         IN  CASE h.k = "lit" ->
                    /\ s # <<>>
                    /\ s[1] = h.c
                    /\ FullMatchSeq(Tail(re), Tail(s))
               [] h.k = "any" ->
                    \E n \in 0..Len(s) :
                        /\ \A j \in 1..n : s[j] # "\n"
                        /\ FullMatchSeq(Tail(re), rest(n))
               [] h.k = "digits" ->
                    \E n \in 1..Len(s) :
                        /\ \A j \in 1..n : IsDigit(s[j])
                        /\ FullMatchSeq(Tail(re), rest(n))

fullmatch(pattern, s) == \E alt \in pattern : FullMatchSeq(alt, s)

token_is_simple_name(tok) ==
    \A i \in 1..Len(tok) : tok[i] \notin {".", "[", "]", "*"}

\* ^tok(?:\..*|\[\d+\].*)?$
subtree_regex(tok) ==
    { Escape(tok),
      Escape(tok) \o <<Lit("."), AnyStar>>,
      Escape(tok) \o <<Lit("["), Digits, Lit("]"), AnyStar>> }

\* (?:^|.*[.\]])tok$
leaf_regex(tok) ==
    { Escape(tok),
      <<AnyStar, Lit(".")>> \o Escape(tok),
      <<AnyStar, Lit("]")>> \o Escape(tok) }

\* esc.replace(r'\[\*\]', r'\[\d+\]') then esc.replace(r'\*', r'.*'),
\* both scanning the escaped token from the left
RECURSIVE TranslateWildcards(_, _)
TranslateWildcards(tok, i) ==
    IF i > Len(tok) THEN <<>>
    ELSE IF i + 2 <= Len(tok) /\ tok[i] = "[" /\ tok[i+1] = "*" /\ tok[i+2] = "]"
         THEN <<Lit("["), Digits, Lit("]")>> \o TranslateWildcards(tok, i + 3)
    ELSE IF tok[i] = "*"
         THEN <<AnyStar>> \o TranslateWildcards(tok, i + 1)
    ELSE <<Lit(tok[i])>> \o TranslateWildcards(tok, i + 1)

complex_regex(tok) == { TranslateWildcards(tok, 1) }

RECURSIVE compile_patterns(_)
compile_patterns(raw_tokens) ==
    IF raw_tokens = <<>> THEN <<>>
    ELSE LET tok == Head(raw_tokens)
         IN  (IF token_is_simple_name(tok)
              THEN <<subtree_regex(tok), leaf_regex(tok)>>
              ELSE <<complex_regex(tok)>>)
             \o compile_patterns(Tail(raw_tokens))

match_any(path_lc, patterns) ==
    \E i \in 1..Len(patterns) : fullmatch(patterns[i], path_lc)

-----------------------------------------------------------------------------
(* chunk_text *)

Min(a, b) == IF a <= b THEN a ELSE b
Max(a, b) == IF a >= b THEN a ELSE b

\* text[start:end], 0 <= start <= end <= len(text)
Slice(text, start, end) == SubSeq(text, start + 1, end)

\* lines 115-116 with the clamp left out
NoClampOverlap(chunk_size, chunk_overlap) == chunk_overlap

\* lines 115-116
ClampOverlap(chunk_size, chunk_overlap) ==
    IF chunk_overlap >= chunk_size
    THEN Max(0, chunk_size \div 10)
    ELSE chunk_overlap

\* line 121 with the overlap forgotten
StepWithoutOverlap(chunk_size, chunk_overlap) == chunk_size

\* line 121
StepOf(chunk_size, chunk_overlap) == chunk_size - chunk_overlap

\* line 125 with every slice kept
KeepsEveryPiece(piece) == TRUE

\* line 125: if piece and piece.strip()
KeepsPiece(piece) == piece # <<>> /\ ~IsBlank(piece)

\* one iteration of the loop of lines 122-129, entered with start < n;
\* stop is the break of line 128
ChunkIteration(text, chunk_size, step, start, kept) ==
    LET n == Len(text)
        end == Min(start + chunk_size, n)
        piece == Slice(text, start, end)
    IN  [ chunks |-> IF KeepsPiece(piece) THEN Append(kept, piece) ELSE kept,
          appended |-> KeepsPiece(piece),
          end |-> end,
          stop |-> end = n,
          start |-> IF end = n THEN start ELSE start + step ]

\* the loop of lines 122-129, run to its end
RECURSIVE ChunkLoopRun(_, _, _, _, _)
ChunkLoopRun(text, chunk_size, step, start, kept) ==
    IF ~(start < Len(text)) THEN kept
    ELSE LET it == ChunkIteration(text, chunk_size, step, start, kept)
         IN  IF it.stop THEN it.chunks
             ELSE ChunkLoopRun(text, chunk_size, step, it.start, it.chunks)

\* lines 111-114
ChunkTextRaises(chunk_size, chunk_overlap) ==
    chunk_size <= 0 \/ chunk_overlap < 0

\* chunk_text on arguments that do not raise
chunk_text(text, chunk_size, chunk_overlap) ==
    LET overlap == ClampOverlap(chunk_size, chunk_overlap)
    IN  ChunkLoopRun(text, chunk_size, StepOf(chunk_size, overlap), 0, <<>>)

-----------------------------------------------------------------------------
(* format_metadata_value *)

S_youtube_id == <<"y","o","u","t","u","b","e","_","i","d">>
S_video_id == <<"v","i","d","e","o","_","i","d">>
S_watch_url == <<"h","t","t","p","s",":","/","/","w","w","w",".",
                 "y","o","u","t","u","b","e",".","c","o","m","/",
                 "w","a","t","c","h","?","v","=">>

\* the characters of the class [A-Za-z0-9_\-] that the model's strings use
IsYtIdChar(c) ==
    \/ IsDigit(c)
    \/ c \in {"a", "b", "k", "m", "n", "t", "x", "y", "A", "K", "M", "T", "_", "-"}

YT_ID_LEN == 11

\* _YT_ID_RE.match(value)
YtIdMatch(value) ==
    /\ Len(value) = YT_ID_LEN
    /\ \A i \in 1..Len(value) : IsYtIdChar(value[i])

\* value is a flattened string here, never None
format_metadata_value(key, value) ==
    IF Lower(key) \in {S_youtube_id, S_video_id} /\ YtIdMatch(value)
    THEN S_watch_url \o value
    ELSE value

-----------------------------------------------------------------------------
(* decide_chunk_or_meta_for_item_paths *)

\* flat_lc = {k.lower(): (k, v) for k, v in flat.items()}
RECURSIVE LowerKeyed(_, _)
LowerKeyed(flat, acc) ==
    IF flat = <<>> THEN acc
    ELSE LowerKeyed(Tail(flat),
                    DictSet(acc, Lower(flat[1][1]), <<flat[1][1], flat[1][2]>>))

\* line 363: a path excluded from both categories is dropped
DropsEntirely(ex_chunk, ex_meta) == ex_chunk /\ ex_meta

\* line 366 without its "and not ex_chunk"
ForceChunkIgnoresExclude(path_lc, force_chunk_patterns, ex_chunk) ==
    match_any(path_lc, force_chunk_patterns)

\* line 366
ForceChunkApplies(path_lc, force_chunk_patterns, ex_chunk) ==
    match_any(path_lc, force_chunk_patterns) /\ ~ex_chunk

\* line 370 with the force-meta list never consulted
ForceMetaNeverApplies(path_lc, force_meta_patterns, ex_meta) == FALSE

\* line 370
ForceMetaApplies(path_lc, force_meta_patterns, ex_meta) ==
    match_any(path_lc, force_meta_patterns) /\ ~ex_meta

\* line 375 with >= for >
DefaultIsChunkAtThreshold(ex_chunk, text, threshold) ==
    ~ex_chunk /\ Len(text) >= threshold

\* line 375
DefaultIsChunk(ex_chunk, text, threshold) ==
    ~ex_chunk /\ Len(text) > threshold

\* lines 367-368 and 376-377: a chunk source only for a non-blank text
AddChunkSource(acc, path, text) ==
    IF ~IsBlank(text)
    THEN [acc EXCEPT !.chunk_sources = Append(@, <<path, text>>)]
    ELSE acc

\* lines 371-372 and 380-381
AddPathMeta(acc, path, text) ==
    [acc EXCEPT !.meta = DictSet(@, path, text),
                !.meta_origin = DictSet(@, path, path)]

\* one iteration of the loop of lines 360-381; entry = <<path_lc, <<path, text>>>>
ClassifyPath(acc, entry, threshold, fc, fm, ec, em) ==
    LET path_lc == entry[1]
        path == entry[2][1]
        text == entry[2][2]
        ex_chunk == match_any(path_lc, ec)
        ex_meta == match_any(path_lc, em)
    IN  IF DropsEntirely(ex_chunk, ex_meta) THEN acc
        ELSE IF ForceChunkApplies(path_lc, fc, ex_chunk)
             THEN AddChunkSource(acc, path, text)
        ELSE IF ForceMetaApplies(path_lc, fm, ex_meta)
             THEN AddPathMeta(acc, path, text)
        ELSE IF DefaultIsChunk(ex_chunk, text, threshold)
             THEN AddChunkSource(acc, path, text)
        ELSE IF ~ex_meta
             THEN AddPathMeta(acc, path, text)
        ELSE acc

RECURSIVE ClassifyPaths(_, _, _, _, _, _, _, _)
ClassifyPaths(acc, flat_lc, i, threshold, fc, fm, ec, em) ==
    IF i > Len(flat_lc) THEN acc
    ELSE ClassifyPaths(ClassifyPath(acc, flat_lc[i], threshold, fc, fm, ec, em),
                       flat_lc, i + 1, threshold, fc, fm, ec, em)

\* line 391: the paths whose last segment is tail
TailCandidates(flat_lc, tail) ==
    SelectSeq(flat_lc,
              LAMBDA e : \/ EndsWith(e[1], <<".">> \o tail)
                         \/ EndsWith(e[1], <<"]", ".">> \o tail))

\* lines 386-393: <<found, <<path, value>>>>
ResolveSource(flat_lc, source_path) ==
    LET sp == Strip(Lower(source_path))
    IN  IF DictHas(flat_lc, sp) THEN <<TRUE, DictGet(flat_lc, sp)>>
        ELSE LET candidates == TailCandidates(flat_lc, LastDotSegment(sp))
             IN  IF Len(candidates) = 1 THEN <<TRUE, candidates[1][2]>>
                 ELSE <<FALSE, <<>>>>

\* line 397 with the check of the resolved path left out
MapSkipsNothing(path, exclude_meta_patterns) == FALSE

\* line 397
MapSkipsExcluded(path, exclude_meta_patterns) ==
    match_any(Lower(path), exclude_meta_patterns)

\* one iteration of the loop of lines 385-400; entry = <<out_key, source_path>>
ApplyMapping(acc, flat_lc, entry, em) ==
    LET src == ResolveSource(flat_lc, entry[2])
    IN  IF ~src[1] THEN acc
        ELSE IF MapSkipsExcluded(src[2][1], em) THEN acc
        ELSE [acc EXCEPT
                !.meta = DictSet(@, entry[1],
                                 format_metadata_value(entry[1], src[2][2])),
                !.meta_origin = DictSet(@, entry[1], src[2][1])]

RECURSIVE ApplyMappings(_, _, _, _)
ApplyMappings(acc, flat_lc, metadata_map, em) ==
    IF metadata_map = <<>> THEN acc
    ELSE ApplyMappings(ApplyMapping(acc, flat_lc, Head(metadata_map), em),
                       flat_lc, Tail(metadata_map), em)

decide_chunk_or_meta_for_item_paths(item, threshold, fc, fm, ec, em, metadata_map) ==
    LET flat == flatten_item(item, <<>>)
        flat_lc == LowerKeyed(flat, <<>>)
        empty == [chunk_sources |-> <<>>, meta |-> <<>>, meta_origin |-> <<>>]
        classified == ClassifyPaths(empty, flat_lc, 1, threshold, fc, fm, ec, em)
    IN  ApplyMappings(classified, flat_lc, metadata_map, em)

-----------------------------------------------------------------------------
(* _parse_key_list *)

\* raw.split(","): the pieces between the commas, from position i on
RECURSIVE SplitCommas(_, _, _)
SplitCommas(s, i, piece) ==
    IF i > Len(s) THEN <<piece>>
    ELSE IF s[i] = "," THEN <<piece>> \o SplitCommas(s, i + 1, <<>>)
    ELSE SplitCommas(s, i + 1, Append(piece, s[i]))

IsQuote(c) == c \in {"'", "\""}

\* t.strip('\'"')
RECURSIVE StripQuotes(_)
StripQuotes(t) ==
    IF t = <<>> THEN t
    ELSE IF IsQuote(t[1]) THEN StripQuotes(Tail(t))
    ELSE IF IsQuote(t[Len(t)]) THEN StripQuotes(SubSeq(t, 1, Len(t) - 1))
    ELSE t

\* lines 38-43
RECURSIVE CleanTokens(_)
CleanTokens(tokens) ==
    IF tokens = <<>> THEN <<>>
    ELSE LET tok == Lower(StripQuotes(Strip(Head(tokens))))
         IN  (IF tok # <<>> THEN <<tok>> ELSE <<>>) \o CleanTokens(Tail(tokens))

\* a form field: absent or empty, a JSON array of strings, or any other text
NoField == [form |-> "none", text |-> <<>>, items |-> <<>>]
CsvField(text) == [form |-> "csv", text |-> text, items |-> <<>>]
JsonListField(items) == [form |-> "json_list", text |-> <<>>, items |-> items]

parse_key_list(raw) ==
    IF raw.form = "none" THEN <<>>
    ELSE IF raw.form = "json_list" THEN CleanTokens(raw.items)
    ELSE CleanTokens(SplitCommas(Strip(raw.text), 1, <<>>))

-----------------------------------------------------------------------------
(* _leaf_name and _compress_meta_keys *)

\* the end of a "[digits]" group starting at s[i], or 0
IndexGroupEnd(s, i) ==
    IF s[i] # "[" THEN 0
    ELSE IF \E j \in (i + 2)..Len(s) :
                s[j] = "]" /\ \A k \in (i + 1)..(j - 1) : IsDigit(s[k])
         THEN CHOOSE j \in (i + 2)..Len(s) :
                s[j] = "]" /\ \A k \in (i + 1)..(j - 1) : IsDigit(s[k])
         ELSE 0

\* re.sub(r"\[\d+\]", "", path)
RECURSIVE StripIndexes(_, _)
StripIndexes(s, i) ==
    IF i > Len(s) THEN <<>>
    ELSE IF IndexGroupEnd(s, i) # 0 THEN StripIndexes(s, IndexGroupEnd(s, i) + 1)
    ELSE <<s[i]>> \o StripIndexes(s, i + 1)

leaf_name(path) == Lower(LastDotSegment(StripIndexes(path, 1)))

IsPathLike(k) == \E i \in 1..Len(k) : k[i] \in {".", "["}

\* lines 319-323 with the loop of line 321 left out: the leaf, taken or not
LeafTaken(new_meta, leaf, i) == leaf

\* lines 319-323: leaf, leaf_2, leaf_3, ... the first not in new_meta
RECURSIVE FreeKey(_, _, _)
FreeKey(new_meta, leaf, i) ==
    LET nk == IF i = 1 THEN leaf ELSE leaf \o <<"_">> \o IntToStr(i)
    IN  IF DictHas(new_meta, nk) THEN FreeKey(new_meta, leaf, i + 1) ELSE nk

\* meta_origin.get(k, k)
OriginOf(origin, k) ==
    IF DictHas(origin, k) THEN DictGet(origin, k) ELSE k

\* lines 316-323 and 327: the key the entry of k is written under
NewKey(new_meta, k) ==
    IF IsPathLike(k) THEN FreeKey(new_meta, leaf_name(k), 1) ELSE k

\* one iteration of the loop of lines 315-329; acc = <<new_meta, new_origin>>
CompressStep(meta, origin, i, acc) ==
    LET k == meta[i][1]
        v == meta[i][2]
        nk == NewKey(acc[1], k)
    IN  << DictSet(acc[1], nk, v), DictSet(acc[2], nk, OriginOf(origin, k)) >>

\* the loop of lines 315-329
RECURSIVE CompressLoop(_, _, _, _)
CompressLoop(meta, origin, i, acc) ==
    IF i > Len(meta) THEN acc
    ELSE CompressLoop(meta, origin, i + 1, CompressStep(meta, origin, i, acc))

S_leaf == <<"l", "e", "a", "f">>

compress_meta_keys(meta, origin, mode) ==
    IF mode # S_leaf THEN <<meta, origin>>
    ELSE CompressLoop(meta, origin, 1, <<<<>>, <<>>>>)

-----------------------------------------------------------------------------
(* Inputs of the classification *)

\* c repeated n times
Repeat(c, n) == [i \in 1..n |-> c]

\* the leaf strings of an item: blank and non-blank, of every length
LeafTexts == {Repeat(c, n) : c \in {"x", " "}, n \in 0..MaxValLen}

LeafValues == {JStr(s) : s \in LeafTexts} \cup {JNull}

\* an 11-character video id
YtId == <<"a","b","k","m","n","t","x","y","0","1","-">>

\* {"a": v, "m": {"t": w}}
ItemNested(v, w) ==
    JObj(<< <<<<"a">>, v>>, <<<<"m">>, JObj(<< <<<<"t">>, w>> >>)>> >>)
\* {"T": v, "m": [w, v]}
ItemArray(v, w) ==
    JObj(<< <<<<"T">>, v>>, <<<<"m">>, JArr(<<w, v>>)>> >>)
\* {"m": {"t": v}, "n": {"t": w}}
ItemTwoTails(v, w) ==
    JObj(<< <<<<"m">>, JObj(<< <<<<"t">>, v>> >>)>>,
            <<<<"n">>, JObj(<< <<<<"t">>, w>> >>)>> >>)
\* {"t": v, "m": {"T": w}}
ItemRootAndTail(v, w) ==
    JObj(<< <<<<"t">>, v>>, <<<<"m">>, JObj(<< <<<<"T">>, w>> >>)>> >>)
\* {"T": v, "t": w}
ItemCaseClash(v, w) ==
    JObj(<< <<<<"T">>, v>>, <<<<"t">>, w>> >>)
\* {"y": "abkmntxy01-", "m": {"t": v}}
ItemVideo(v) ==
    JObj(<< <<<<"y">>, JStr(YtId)>>, <<<<"m">>, JObj(<< <<<<"t">>, v>> >>)>> >>)

SecondLeaves == {JNull, JStr(<<"x", "x">>)}

DecideItems ==
    UNION { { ItemNested(v, w), ItemArray(v, w), ItemTwoTails(v, w),
              ItemRootAndTail(v, w), ItemCaseClash(v, w), ItemVideo(v) } :
            v \in LeafValues, w \in SecondLeaves }

\* token lists as _parse_key_list returns them: lower-cased, trimmed, non-empty
ForceTokenLists ==
    { <<>>,
      << <<"t">> >>,
      << <<"m", "[", "*", "]">>, <<"a">> >>,
      << <<"*", ".", "t">>, <<"y">> >> }

ExcludeTokenLists ==
    { <<>>,
      << <<"t">> >>,
      << <<"m">>, <<"a">> >> }

\* metadata_map: out_key -> source_path, in the order of the request's JSON
MetadataMaps ==
    { <<>>,
      << <<<<"t">>, <<"m", ".", "t">>>> >>,
      << <<S_video_id, <<"y">>>>,
         <<<<"m", ".", "t">>, <<"a">>>>,
         <<<<"k">>, <<" ", "M", ".", "T", " ">>>>,
         <<<<"a">>, <<"z", ".", "t">>>> >> }

-----------------------------------------------------------------------------
(* The request of a run of process_flexible_task *)

\* a form value that int() parses, and one it raises ValueError on
IntField(v) == [ok |-> TRUE, v |-> v]
BadIntField == [ok |-> FALSE, v |-> 0]

\* the four credentials are TRUE when present and non-empty
NoData ==
    [ openai_key |-> FALSE, supabase_url |-> FALSE, supabase_key |-> FALSE,
      file_url |-> FALSE,
      chunk_size |-> IntField(500), chunk_overlap |-> IntField(50),
      threshold |-> IntField(70),
      metadata_map |-> <<>>, meta_key_mode |-> S_leaf,
      force_chunk_keys |-> NoField, force_meta_keys |-> NoField,
      exclude_chunk_keys |-> NoField, exclude_meta_keys |-> NoField,
      global_meta_keys |-> NoField ]

\* what file_url serves: nothing ("unreachable"), text json.loads rejects
\* ("not_json"), or a JSON value
NoSource == [kind |-> "none", value |-> JNull]
Unreachable == [kind |-> "unreachable", value |-> JNull]
NotJson == [kind |-> "not_json", value |-> JNull]
Serves(value) == [kind |-> "json", value |-> value]

\* a request: the three headers and json_url are TRUE when present and
\* non-empty; metadata_parses tells whether json.loads accepts the metadata
\* field; form holds the other fields as process_flexible_task reads them
NoRequest ==
    [ x_openai_api_key |-> FALSE, x_supabase_url |-> FALSE,
      x_supabase_key |-> FALSE, json_url |-> FALSE,
      metadata_parses |-> TRUE, form |-> NoData ]

NoResponse == [status |-> 0, missing |-> <<>>]

\* no request is being handled
IdleHttp ==
    /\ h_pc = "idle"
    /\ h_endpoint = "none"
    /\ h_request = NoRequest
    /\ h_response = NoResponse
    /\ h_thread = "none"

NoReply == [id |-> 0, code |-> 0]

\* no video job was ever submitted: an empty table and an empty OUTPUT_DIR
IdleVideo ==
    /\ v_requests = <<>>
    /\ v_limit = 0
    /\ v_clock = 0
    /\ v_db = <<>>
    /\ v_worker = <<>>
    /\ v_files = {}
    /\ v_accepted = {}
    /\ v_reply = NoReply
    /\ v_trans = {}

\* no helper is being called on its own
IdleUtil ==
    /\ u_pc = "idle"
    /\ u_args = <<>>
    /\ u_ret = <<>>

\* process_flexible_task is not running
NoConf ==
    [ chunk_size |-> 0, chunk_overlap |-> 0, threshold |-> 0,
      metadata_map |-> <<>>, meta_key_mode |-> <<>>,
      force_chunk_patterns |-> <<>>, force_meta_patterns |-> <<>>,
      exclude_chunk_patterns |-> <<>>, exclude_meta_patterns |-> <<>>,
      global_meta_raw |-> <<>> ]

IdleLoops ==
    /\ json_data = <<>> /\ item_idx = 0
    /\ chunk_sources = <<>> /\ base_meta = <<>> /\ meta_origin = <<>>
    /\ src_idx = 0 /\ chunks = <<>> /\ chunk_idx = 0
    /\ total_uploaded = 0

IdleEmbed ==
    /\ be_chunks = <<>> /\ be_max_batch_size = 0 /\ be_i = 0
    /\ be_attempt = 0 /\ be_backoff = 0 /\ be_embeddings = <<>>
    /\ be_zeroed = {}

IdleInsert ==
    /\ ins_batch_size = 0 /\ ins_i = 0 /\ ins_attempt = 0 /\ ins_backoff = 0

NoHistory ==
    /\ emitted = <<>> /\ handed = <<>> /\ flushes = <<>>
    /\ store_log = <<>> /\ log = {}

IdleRun ==
    /\ pc = "idle"
    /\ data = NoData /\ source = NoSource /\ conf = NoConf
    /\ IdleLoops
    /\ batched_chunks = <<>> /\ batched_meta_list = <<>>
    /\ flush_site = "none"
    /\ embeddings = <<>> /\ records = <<>>
    /\ IdleEmbed /\ IdleInsert /\ NoHistory

IdleChunk ==
    /\ ct_pc = "idle"
    /\ ct_text = <<>> /\ ct_chunk_size = 0 /\ ct_chunk_overlap = 0
    /\ ct_overlap_arg = 0 /\ ct_step = 0 /\ ct_start = 0
    /\ ct_chunks = <<>> /\ ct_windows = <<>>

InitDecide ==
    /\ IdleHttp
    /\ IdleUtil
    /\ IdleVideo
    /\ IdleChunk
    /\ IdleRun
    /\ d_pc = "call"
    /\ d_item \in DecideItems
    /\ d_threshold \in 0..MaxThreshold
    /\ d_force_chunk \in ForceTokenLists
    /\ d_force_meta \in ForceTokenLists
    /\ d_exclude_chunk \in ExcludeTokenLists
    /\ d_exclude_meta \in ExcludeTokenLists
    /\ d_metadata_map \in MetadataMaps
    /\ d_result = [chunk_sources |-> <<>>, meta |-> <<>>, meta_origin |-> <<>>]

\* the call of lines 482-488, with the patterns compiled as in lines 456-459
Decide ==
    /\ d_pc = "call"
    /\ d_result' = decide_chunk_or_meta_for_item_paths(
                       d_item, d_threshold,
                       compile_patterns(d_force_chunk),
                       compile_patterns(d_force_meta),
                       compile_patterns(d_exclude_chunk),
                       compile_patterns(d_exclude_meta),
                       d_metadata_map)
    /\ d_pc' = "done"
    /\ UNCHANGED <<d_item, d_threshold, d_force_chunk, d_force_meta,
                   d_exclude_chunk, d_exclude_meta, d_metadata_map>>
    /\ UNCHANGED <<ct_vars, r_vars, h_vars, u_vars, v_vars>>

NextDecide == Decide

SpecDecide == InitDecide /\ [][NextDecide]_vars

-----------------------------------------------------------------------------
(* Properties of the classification *)

\* the flattened item, and the lower-cased view the loop of line 360 visits
DFlat == flatten_item(d_item, <<>>)
DFlatLc == LowerKeyed(DFlat, <<>>)
\* every flattened path of the item
DPaths == DictKeys(DFlat)
\* the <<path, text>> pairs the loop visits
DVisited == {DFlatLc[i][2] : i \in 1..Len(DFlatLc)}

DExChunk(path) == match_any(Lower(path), compile_patterns(d_exclude_chunk))
DExMeta(path) == match_any(Lower(path), compile_patterns(d_exclude_meta))
DForceChunk(path) == match_any(Lower(path), compile_patterns(d_force_chunk))
DForceMeta(path) == match_any(Lower(path), compile_patterns(d_force_meta))

\* the origins of the chunk sources returned
DChunkOrigins ==
    {d_result.chunk_sources[i][1] : i \in 1..Len(d_result.chunk_sources)}
\* the provenances of the metadata entries returned
DProvenances ==
    {d_result.meta_origin[i][2] : i \in 1..Len(d_result.meta_origin)}

IsChunkSource(path, text) ==
    \E i \in 1..Len(d_result.chunk_sources) :
        d_result.chunk_sources[i] = <<path, text>>

\* metadata keyed by the path itself, with the path's text and provenance
IsPathMeta(path, text) ==
    /\ DictHas(d_result.meta, path)
    /\ DictGet(d_result.meta, path) = text
    /\ DictHas(d_result.meta_origin, path)
    /\ DictGet(d_result.meta_origin, path) = path

\* metadata_map has an output key spelled like the path
IsMapKey(path) ==
    \E i \in 1..Len(d_metadata_map) : d_metadata_map[i][1] = path

\* C1 (exclude dominance): a flattened path that matches both an
\* exclude-chunk and an exclude-meta pattern is the origin of no chunk
\* source and the provenance of no metadata entry, neither of one keyed by
\* the path nor of one keyed by a mapped output key.
C1_ExcludeDominance ==
    d_pc = "done" =>
        \A path \in DPaths :
            (DExChunk(path) /\ DExMeta(path)) =>
                /\ path \notin DChunkOrigins
                /\ path \notin DProvenances
                /\ \A text \in LeafTexts : ~IsPathMeta(path, text)

\* a doubly excluded path that a force-chunk pattern matches and that a
\* metadata_map entry resolves to has been decided
C1_Witness ==
    /\ d_pc = "done"
    /\ \E path \in DPaths :
        /\ DExChunk(path) /\ DExMeta(path)
        /\ DForceChunk(path)
        /\ \E i \in 1..Len(d_metadata_map) :
            LET src == ResolveSource(DFlatLc, d_metadata_map[i][2])
            IN  src[1] /\ src[2][1] = path /\ ~IsBlank(src[2][2])

\* C2 as stated: a path matching force-chunk and no exclude-chunk pattern is
\* a chunk source, and a path matching force-meta and no exclude-meta
\* pattern is metadata keyed by the path with provenance = path.
C2_Original ==
    d_pc = "done" =>
        \A e \in DVisited :
            /\ (DForceChunk(e[1]) /\ ~DExChunk(e[1])) => IsChunkSource(e[1], e[2])
            /\ (DForceMeta(e[1]) /\ ~DExMeta(e[1])) => IsPathMeta(e[1], e[2])

\* C2 (force precedence, amended): a visited path matching force-chunk and
\* no exclude-chunk pattern is a chunk source whenever its text is not
\* blank, whatever its length, and is never metadata keyed by the path; a
\* path matching force-meta and no exclude-meta pattern, and not taken by
\* the force-chunk rule, is metadata keyed by the path with provenance =
\* path, whatever its length, unless an output key of metadata_map is
\* spelled like the path.
C2_ForcePrecedence ==
    d_pc = "done" =>
        \A e \in DVisited :
            /\ (DForceChunk(e[1]) /\ ~DExChunk(e[1])) =>
                  /\ IsChunkSource(e[1], e[2]) <=> ~IsBlank(e[2])
                  /\ IsMapKey(e[1]) \/ ~DictHas(d_result.meta, e[1])
            /\ ( /\ DForceMeta(e[1]) /\ ~DExMeta(e[1])
                 /\ ~(DForceChunk(e[1]) /\ ~DExChunk(e[1]))
                 /\ ~IsMapKey(e[1]) ) =>
                  /\ IsPathMeta(e[1], e[2])
                  /\ e[1] \notin DChunkOrigins

\* a short text was force-chunked and a long text was force-meta'd
C2_Witness ==
    /\ d_pc = "done"
    /\ \E e \in DVisited :
        /\ DForceChunk(e[1]) /\ ~DExChunk(e[1])
        /\ Len(e[2]) <= d_threshold /\ IsChunkSource(e[1], e[2])
    /\ \E e \in DVisited :
        /\ DForceMeta(e[1]) /\ ~DExMeta(e[1])
        /\ Len(e[2]) > d_threshold /\ ~IsBlank(e[2]) /\ IsPathMeta(e[1], e[2])

NoPatternsNoMap ==
    /\ d_force_chunk = <<>> /\ d_force_meta = <<>>
    /\ d_exclude_chunk = <<>> /\ d_exclude_meta = <<>>
    /\ d_metadata_map = <<>>

\* C3 as stated: with no patterns and no map, a path is a chunk source iff
\* its text is longer than the threshold, and is metadata otherwise.
C3_Original ==
    (d_pc = "done" /\ NoPatternsNoMap) =>
        \A e \in DVisited :
            /\ IsChunkSource(e[1], e[2]) <=> Len(e[2]) > d_threshold
            /\ IsPathMeta(e[1], e[2]) <=> ~(Len(e[2]) > d_threshold)

\* C3 (threshold default, amended): with no patterns and no map, a visited
\* path is a chunk source iff its text is longer than the threshold and not
\* blank, is metadata keyed by its own path iff its text is not longer than
\* the threshold, and a blank text longer than the threshold is emitted
\* nowhere; nothing else is emitted.
C3_ThresholdDefault ==
    (d_pc = "done" /\ NoPatternsNoMap) =>
        /\ \A e \in DVisited :
            /\ IsChunkSource(e[1], e[2]) <=>
                  (Len(e[2]) > d_threshold /\ ~IsBlank(e[2]))
            /\ IsPathMeta(e[1], e[2]) <=> ~(Len(e[2]) > d_threshold)
            /\ (Len(e[2]) > d_threshold /\ IsBlank(e[2])) =>
                  (e[1] \notin DChunkOrigins /\ ~DictHas(d_result.meta, e[1]))
        /\ \A i \in 1..Len(d_result.chunk_sources) :
               d_result.chunk_sources[i] \in DVisited
        /\ \A i \in 1..Len(d_result.meta) :
               /\ d_result.meta[i] \in DVisited
               /\ d_result.meta_origin[i] = <<d_result.meta[i][1], d_result.meta[i][1]>>

\* one path went to the chunk sources and another to the metadata
C3_Witness ==
    /\ d_pc = "done" /\ NoPatternsNoMap
    /\ d_result.chunk_sources # <<>>
    /\ d_result.meta # <<>>
    /\ \E e \in DVisited : Len(e[2]) = d_threshold /\ IsPathMeta(e[1], e[2])

\* C4 (per-category excludes): no path matching an exclude-chunk pattern
\* is the origin of a chunk source, and no path matching an exclude-meta
\* pattern is the provenance of a metadata entry, however it is keyed.
C4_PerCategoryExcludes ==
    d_pc = "done" =>
        \A path \in DPaths :
            /\ DExChunk(path) => path \notin DChunkOrigins
            /\ DExMeta(path) => path \notin DProvenances

\* a path excluded from chunking only was force-chunked and long, and went
\* to the metadata; a path excluded from metadata was the resolved source
\* of a mapping and the mapping was skipped
C4_Witness ==
    /\ d_pc = "done"
    /\ \E e \in DVisited :
        /\ DExChunk(e[1]) /\ ~DExMeta(e[1]) /\ DForceChunk(e[1])
        /\ Len(e[2]) > d_threshold /\ ~IsBlank(e[2])
        /\ IsPathMeta(e[1], e[2])
    /\ \E i \in 1..Len(d_metadata_map) :
        LET src == ResolveSource(DFlatLc, d_metadata_map[i][2])
        IN  /\ src[1] /\ DExMeta(src[2][1])
            /\ ~DictHas(d_result.meta, d_metadata_map[i][1])

\* the visited <<path, text>> an entry of metadata_map names: the path equal
\* to the trimmed source path but for case; or else the only path, at any
\* depth, whose last segment is the source path's last segment
NamedSources(source_path) ==
    LET sp == Strip(Lower(source_path))
        exact == {e \in DVisited : Lower(e[1]) = sp}
        tails == {e \in DVisited :
                    LastDotSegment(Lower(e[1])) = LastDotSegment(sp)}
    IN  IF exact # {} THEN exact
        ELSE IF Cardinality(tails) = 1 THEN tails
        ELSE {}

\* what the classification of the paths alone returns
DWithoutMap ==
    decide_chunk_or_meta_for_item_paths(
        d_item, d_threshold,
        compile_patterns(d_force_chunk), compile_patterns(d_force_meta),
        compile_patterns(d_exclude_chunk), compile_patterns(d_exclude_meta),
        <<>>)

\* the entry under out_key is the one the map writes from source e
MappedFrom(out_key, e) ==
    /\ DictHas(d_result.meta, out_key)
    /\ DictGet(d_result.meta, out_key) = format_metadata_value(out_key, e[2])
    /\ DictHas(d_result.meta_origin, out_key)
    /\ DictGet(d_result.meta_origin, out_key) = e[1]

\* the map left out_key as the loop over the paths had it
MappingSkipped(out_key) ==
    /\ DictHas(d_result.meta, out_key) <=> DictHas(DWithoutMap.meta, out_key)
    /\ DictHas(d_result.meta, out_key) =>
        /\ DictGet(d_result.meta, out_key) = DictGet(DWithoutMap.meta, out_key)
        /\ DictGet(d_result.meta_origin, out_key)
               = DictGet(DWithoutMap.meta_origin, out_key)

\* C17: an entry out_key -> source_path of metadata_map takes the path equal
\* to source_path but for case; or else the path whose last segment equals
\* source_path's last segment, if exactly one path of the item, at any depth
\* and the root included, has it; otherwise the entry is skipped.  A resolved
\* path that is not exclude-meta puts its transformed value under out_key,
\* with the path as provenance, over any earlier entry.
C17_Original ==
    d_pc = "done" =>
        \A i \in 1..Len(d_metadata_map) :
            LET out_key == d_metadata_map[i][1]
                srcs == {e \in NamedSources(d_metadata_map[i][2]) : ~DExMeta(e[1])}
            IN  IF srcs # {}
                THEN \E e \in srcs : MappedFrom(out_key, e)
                ELSE MappingSkipped(out_key)

-----------------------------------------------------------------------------
(* chunk_text as a process: one action per loop iteration *)

IdleDecide ==
    /\ d_pc = "idle"
    /\ d_item = JNull /\ d_threshold = 0
    /\ d_force_chunk = <<>> /\ d_force_meta = <<>>
    /\ d_exclude_chunk = <<>> /\ d_exclude_meta = <<>>
    /\ d_metadata_map = <<>>
    /\ d_result = [chunk_sources |-> <<>>, meta |-> <<>>, meta_origin |-> <<>>]

\* a text of n characters with a blank stretch in it
Spaced(n) == [i \in 1..n |-> IF i % 8 \in {3, 4, 5} THEN " " ELSE "x"]

RECURSIVE StringsUpTo(_, _)
\* every string over alphabet of at most n characters
StringsUpTo(alphabet, n) ==
    IF n = 0 THEN {<<>>}
    ELSE LET shorter == StringsUpTo(alphabet, n - 1)
         IN  shorter \cup {Append(s, c) : s \in shorter, c \in alphabet}

ChunkTexts ==
    StringsUpTo({"x", " "}, MaxTextLen)
        \cup {Repeat("x", LongTextLen), Spaced(LongTextLen)}

InitChunk ==
    /\ IdleHttp
    /\ IdleUtil
    /\ IdleVideo
    /\ IdleDecide
    /\ IdleRun
    /\ ct_pc = "call"
    /\ ct_text \in ChunkTexts
    /\ ct_chunk_size \in 0..MaxChunkSize
    /\ ct_chunk_overlap \in (-1)..(MaxChunkSize + 1)
    /\ ct_overlap_arg = ct_chunk_overlap
    /\ ct_step = 0 /\ ct_start = 0
    /\ ct_chunks = <<>> /\ ct_windows = <<>>

\* lines 111-114: raise ValueError
ChunkRaise ==
    /\ ct_pc = "call"
    /\ ChunkTextRaises(ct_chunk_size, ct_chunk_overlap)
    /\ ct_pc' = "raised"
    /\ UNCHANGED <<ct_text, ct_chunk_size, ct_chunk_overlap, ct_step, ct_start,
                   ct_chunks, ct_overlap_arg, ct_windows>>
    /\ UNCHANGED <<d_vars, r_vars, h_vars, u_vars, v_vars>>

\* lines 115-121
ChunkEnter ==
    /\ ct_pc = "call"
    /\ ~ChunkTextRaises(ct_chunk_size, ct_chunk_overlap)
    /\ ct_chunk_overlap' = ClampOverlap(ct_chunk_size, ct_chunk_overlap)
    /\ ct_step' = StepOf(ct_chunk_size, ct_chunk_overlap')
    /\ ct_start' = 0
    /\ ct_chunks' = <<>>
    /\ ct_pc' = "loop"
    /\ UNCHANGED <<ct_text, ct_chunk_size, ct_overlap_arg, ct_windows>>
    /\ UNCHANGED <<d_vars, r_vars, h_vars, u_vars, v_vars>>

\* lines 122-129: one iteration
ChunkLoop ==
    /\ ct_pc = "loop"
    /\ ct_start < Len(ct_text)
    /\ LET it == ChunkIteration(ct_text, ct_chunk_size, ct_step, ct_start, ct_chunks)
       IN  /\ ct_chunks' = it.chunks
           /\ ct_windows' = Append(ct_windows, <<ct_start, it.end, it.appended>>)
           /\ ct_start' = it.start
           /\ ct_pc' = IF it.stop THEN "done" ELSE "loop"
    /\ UNCHANGED <<ct_text, ct_chunk_size, ct_chunk_overlap, ct_step, ct_overlap_arg>>
    /\ UNCHANGED <<d_vars, r_vars, h_vars, u_vars, v_vars>>

\* line 122 false, line 130
ChunkReturn ==
    /\ ct_pc = "loop"
    /\ ~(ct_start < Len(ct_text))
    /\ ct_pc' = "done"
    /\ UNCHANGED <<ct_text, ct_chunk_size, ct_chunk_overlap, ct_step, ct_start,
                   ct_chunks, ct_overlap_arg, ct_windows>>
    /\ UNCHANGED <<d_vars, r_vars, h_vars, u_vars, v_vars>>

NextChunk == ChunkRaise \/ ChunkEnter \/ ChunkLoop \/ ChunkReturn

\* a running call keeps running: the interpreter takes the next step
SpecChunk == InitChunk /\ [][NextChunk]_vars /\ WF_vars(NextChunk)

-----------------------------------------------------------------------------
(* Properties of the chunker *)

\* C6 (chunker termination): for chunk_size > 0 and chunk_overlap >= 0 an
\* overlap >= size has been replaced by size \div 10 when the loop starts
\* (1 for size 10, 0 for sizes 1..9), any other overlap is kept, and the
\* step size - overlap is strictly positive; every iteration then either
\* ends the loop or moves start strictly forward, still inside the text;
\* and every call ends, returning or raising.
C6_ChunkerTerminates ==
    /\ [][ ct_pc = "loop" =>
             /\ ct_chunk_overlap =
                    (IF ct_overlap_arg >= ct_chunk_size
                     THEN ct_chunk_size \div 10 ELSE ct_overlap_arg)
             /\ ct_step = ct_chunk_size - ct_chunk_overlap
             /\ ct_step > 0
             /\ \/ ct_pc' = "done"
                \/ ct_start < ct_start' /\ ct_start' < Len(ct_text) ]_vars
    /\ <>(ct_pc \in {"done", "raised"})

\* chunk_text(text, 10, 10) has returned three chunks of a text of
\* LongTextLen characters, stepping by 9
C6_Witness ==
    /\ ct_pc = "done"
    /\ ct_chunk_size = 10 /\ ct_overlap_arg = 10 /\ ct_chunk_overlap = 1
    /\ Len(ct_text) = LongTextLen
    /\ Len(ct_chunks) >= 3

\* C7 (chunker output non-blank): no returned chunk is empty or
\* whitespace-only, and the result is empty iff the text is empty or
\* whitespace-only.
C7_ChunksNonBlank ==
    ct_pc = "done" =>
        /\ \A i \in 1..Len(ct_chunks) :
               ct_chunks[i] # <<>> /\ ~IsBlank(ct_chunks[i])
        /\ ct_chunks = <<>> <=> IsBlank(ct_text)

\* a text with a whitespace-only slice in it was chunked to fewer chunks
\* than slices
C7_Witness ==
    /\ ct_pc = "done"
    /\ ct_chunks # <<>>
    /\ Len(ct_chunks) < Len(ct_windows)

ValidOverlap == 0 <= ct_overlap_arg /\ ct_overlap_arg < ct_chunk_size

\* the windows whose slice was appended, in order
AppendedWindows == SelectSeq(ct_windows, LAMBDA w : w[3])

\* the slices a sequence of windows takes of the text
SlicesOf(ws) == [i \in 1..Len(ws) |-> Slice(ct_text, ws[i][1], ws[i][2])]

\* every slice is a non-empty stretch of the text of at most size characters
WindowsInText(ws) ==
    \A i \in 1..Len(ws) :
        /\ 0 <= ws[i][1] /\ ws[i][1] < ws[i][2] /\ ws[i][2] <= Len(ct_text)
        /\ ws[i][2] - ws[i][1] <= ct_chunk_size

\* every character of the text lies in a slice
WindowsCover(ws) ==
    \A p \in 1..Len(ct_text) :
        \E i \in 1..Len(ws) : ws[i][1] < p /\ p <= ws[i][2]

\* the last slice ends where the text ends
WindowsReachEnd(ws) ==
    ct_text # <<>> => (ws # <<>> /\ ws[Len(ws)][2] = Len(ct_text))

\* each slice but the first starts overlap characters before the end of
\* the one before it
WindowsOverlap(ws) ==
    \A i \in 1..(Len(ws) - 1) : ws[i][2] - ws[i + 1][1] = ct_overlap_arg

\* C8 as stated: the returned chunks are slices of the text of length at
\* most size, cover every character, end at the end of the text and each
\* overlaps the one returned before it by exactly overlap characters.
C8_Original ==
    (ct_pc = "done" /\ ValidOverlap) =>
        /\ ct_chunks = SlicesOf(AppendedWindows)
        /\ WindowsInText(AppendedWindows)
        /\ WindowsCover(AppendedWindows)
        /\ WindowsReachEnd(AppendedWindows)
        /\ WindowsOverlap(AppendedWindows)

\* C8 (chunk coverage and overlap, amended): the slices the scan takes are
\* stretches of the text of length at most size, cover every character,
\* end at the end of the text, and each overlaps the one before it by
\* exactly overlap characters; the returned chunks are, in order, the
\* slices that hold a non-whitespace character, so every non-whitespace
\* character lies in a returned chunk; and when no slice is
\* whitespace-only the returned chunks are all the slices.
C8_ChunkCoverage ==
    (ct_pc = "done" /\ ValidOverlap) =>
        /\ WindowsInText(ct_windows)
        /\ WindowsCover(ct_windows)
        /\ WindowsReachEnd(ct_windows)
        /\ WindowsOverlap(ct_windows)
        /\ ct_chunks = SlicesOf(AppendedWindows)
        /\ \A i \in 1..Len(ct_windows) :
               ct_windows[i][3] <=>
                   ~IsBlank(Slice(ct_text, ct_windows[i][1], ct_windows[i][2]))
        /\ \A p \in 1..Len(ct_text) :
               ~IsSpace(ct_text[p]) =>
                   \E i \in 1..Len(AppendedWindows) :
                       /\ AppendedWindows[i][1] < p
                       /\ p <= AppendedWindows[i][2]
        /\ (\A i \in 1..Len(ct_windows) : ct_windows[i][3]) =>
               (/\ WindowsCover(AppendedWindows)
                /\ WindowsReachEnd(AppendedWindows)
                /\ WindowsOverlap(AppendedWindows))

\* chunk_text(text, 10, 3) on LongTextLen characters: four chunks, the last
\* shorter than 10
C8_Witness ==
    /\ ct_pc = "done"
    /\ ct_chunk_size = 10 /\ ct_overlap_arg = 3
    /\ Len(ct_text) = LongTextLen
    /\ Len(ct_chunks) = 4
    /\ Len(ct_chunks[4]) < 10

-----------------------------------------------------------------------------
(* batch_embed_text and insert_into_supabase *)

\* batch_embed_text(max_retries=5) and insert_into_supabase(max_retries=5)
be_max_retries == 5
ins_max_retries == 5
\* the first wait of a retry loop and the ceiling of the waits, in seconds
be_first_backoff == 4
be_backoff_cap == 30
ins_first_backoff == 3
ins_backoff_cap == 20
\* the length of the vectors of the zero fill
EMBED_DIM == 1536

\* the vector the provider returns for a text, and the vector of the zero fill
Embedding(text) == [kind |-> "real", of |-> text, dim |-> EMBED_DIM]
ZeroVector == [kind |-> "zero", of |-> <<>>, dim |-> EMBED_DIM]

\* seq[i : i + size]
SubBatch(seq, i, size) == SubSeq(seq, i + 1, Min(i + size, Len(seq)))

\* [d.embedding for d in resp.data]: one vector per input, in input order
ProviderReply(batch) == [k \in 1..Len(batch) |-> Embedding(batch[k])]

\* lines 169 and 177 with nothing put in place of the failed sub-batch
NoFill(batch) == <<>>

\* lines 169 and 177: [[0.0] * 1536] * len(batch)
ZeroFill(batch) == [k \in 1..Len(batch) |-> ZeroVector]

\* lines 173 and 218 without the ceiling
DoubledBackoff(backoff, cap) == backoff * 2

\* lines 173 and 218
NextBackoff(backoff, cap) == Min(backoff * 2, cap)

-----------------------------------------------------------------------------
(* process_flexible_task: operators *)

\* lines 473-474
max_batch_size == 128
supabase_batch_size == 100

S_source_field == <<"s","o","u","r","c","e","_","f","i","e","l","d">>

\* line 520 with the flush one chunk late
FlushLate(n) == n > max_batch_size

\* line 520
FlushDue(n) == n >= max_batch_size

\* line 496: if not c or not c.strip(): continue
AcceptsChunk(c) == ~(c = <<>> \/ Strip(c) = <<>>)

\* lines 490-491 with a row of empty content kept for the item
PlaceholderRow(acc) == <<Append(acc[1], <<>>), Append(acc[2], <<>>)>>

\* lines 490-491: continue; acc = <<batched_chunks, batched_meta_list>>
SkipItem(acc) == acc

\* lines 505-508, for one g
RECURSIVE GlobalInner(_, _, _, _)
GlobalInner(related_meta, base, g, j) ==
    IF j > Len(base) THEN related_meta
    ELSE LET bk == base[j][1]
             gl == Lower(g)
         IN  GlobalInner(IF leaf_name(bk) = gl \/ Lower(bk) = gl
                         THEN DictSet(related_meta, g, base[j][2])
                         ELSE related_meta,
                         base, g, j + 1)

\* lines 503-508
RECURSIVE GlobalOuter(_, _, _)
GlobalOuter(related_meta, base, globals) ==
    IF globals = <<>> THEN related_meta
    ELSE GlobalOuter(GlobalInner(related_meta, base, Head(globals), 1),
                     base, Tail(globals))

\* lines 500-514: the metadata of one chunk
RelatedMeta(base, origin, globals, src_path, mode) ==
    LET withGlobals == GlobalOuter(base, base, globals)
        traced == DictSet(withGlobals, S_source_field, src_path)
    IN  compress_meta_keys(traced, origin, mode)[1]

\* lines 524-532 and 544-552; created_at, a clock reading, is left out
MakeRecords(contents, metas, vectors) ==
    [i \in 1..Len(contents) |->
        [content |-> contents[i], metadata |-> metas[i], embedding |-> vectors[i]]]

\* lines 436-459, on a request whose int() calls succeed
ParseConf(d) ==
    [ chunk_size |-> d.chunk_size.v, chunk_overlap |-> d.chunk_overlap.v,
      threshold |-> d.threshold.v,
      metadata_map |-> d.metadata_map, meta_key_mode |-> d.meta_key_mode,
      force_chunk_patterns |-> compile_patterns(parse_key_list(d.force_chunk_keys)),
      force_meta_patterns |-> compile_patterns(parse_key_list(d.force_meta_keys)),
      exclude_chunk_patterns |-> compile_patterns(parse_key_list(d.exclude_chunk_keys)),
      exclude_meta_patterns |-> compile_patterns(parse_key_list(d.exclude_meta_keys)),
      global_meta_raw |-> parse_key_list(d.global_meta_keys) ]

\* lines 441, 442, 448: int() raises; lines 461-462: raise ValueError
StartRaises(d) ==
    \/ ~d.chunk_size.ok \/ ~d.chunk_overlap.ok \/ ~d.threshold.ok
    \/ ~(d.openai_key /\ d.supabase_url /\ d.supabase_key /\ d.file_url)

\* lines 464-471: download_json_from_url, json.loads or line 471 raises
FetchRaises(src) ==
    \/ src.kind # "json"
    \/ src.value.t \notin {"dict", "list"}

\* lines 468-469
ItemsOf(value) == IF value.t = "dict" THEN <<value>> ELSE value.kids

\* the call of lines 482-488
DecideItem(item, c) ==
    decide_chunk_or_meta_for_item_paths(
        item, c.threshold,
        c.force_chunk_patterns, c.force_meta_patterns,
        c.exclude_chunk_patterns, c.exclude_meta_patterns,
        c.metadata_map)

-----------------------------------------------------------------------------
(* process_flexible_task: actions *)

\* a run whose exception leaves the thread: no except clause, no log line
RunEscapes ==
    /\ pc' = "escaped"
    /\ UNCHANGED log

\* lines 561-562: the exception is logged and the run ends
RunFails ==
    /\ pc' = "failed"
    /\ log' = log \cup {"FLEX TASK ERROR"}

\* the call batch_embed_text(chs, ..., max_batch_size=size): lines 155-156
CallEmbed(chs, size, site) ==
    /\ pc' = "embed"
    /\ flush_site' = site
    /\ be_chunks' = chs
    /\ be_max_batch_size' = size
    /\ be_i' = 0
    /\ be_attempt' = 0
    /\ be_backoff' = be_first_backoff
    /\ be_embeddings' = <<>>
    /\ be_zeroed' = {}

\* lines 436-462
Start ==
    /\ pc = "start"
    /\ IF StartRaises(data)
       THEN RunFails /\ UNCHANGED conf
       ELSE /\ conf' = ParseConf(data)
            /\ pc' = "fetch"
            /\ UNCHANGED log
    /\ UNCHANGED <<data, source, json_data, loop_vars, acc_vars, total_uploaded,
                   flush_site, embeddings, records, be_vars, ins_vars,
                   emitted, handed, flushes, store_log>>
    /\ UNCHANGED <<d_vars, ct_vars, h_vars, u_vars, v_vars>>

\* lines 464-479
Fetch ==
    /\ pc = "fetch"
    /\ IF FetchRaises(source)
       THEN RunFails /\ UNCHANGED <<json_data, item_idx>>
       ELSE /\ json_data' = ItemsOf(source.value)
            /\ item_idx' = 1
            /\ pc' = "items"
            /\ UNCHANGED log
    /\ batched_chunks' = <<>>
    /\ batched_meta_list' = <<>>
    /\ total_uploaded' = 0
    /\ UNCHANGED <<data, source, conf, chunk_sources, base_meta, meta_origin,
                   src_idx, chunks, chunk_idx, flush_site, embeddings, records,
                   be_vars, ins_vars, emitted, handed, flushes, store_log>>
    /\ UNCHANGED <<d_vars, ct_vars, h_vars, u_vars, v_vars>>

\* lines 481-491: the next item is classified
LoopItem ==
    /\ pc = "items"
    /\ item_idx <= Len(json_data)
    /\ LET d == DecideItem(json_data[item_idx], conf)
       IN  /\ chunk_sources' = d.chunk_sources
           /\ base_meta' = d.meta
           /\ meta_origin' = d.meta_origin
           /\ IF d.chunk_sources = <<>>
              THEN /\ batched_chunks' =
                          SkipItem(<<batched_chunks, batched_meta_list>>)[1]
                   /\ batched_meta_list' =
                          SkipItem(<<batched_chunks, batched_meta_list>>)[2]
                   /\ item_idx' = item_idx + 1
                   /\ UNCHANGED <<pc, src_idx>>
              ELSE /\ src_idx' = 1
                   /\ pc' = "source"
                   /\ UNCHANGED <<item_idx, acc_vars>>
    /\ UNCHANGED <<req_vars, chunks, chunk_idx, total_uploaded, flush_site,
                   embeddings, records, be_vars, ins_vars,
                   emitted, handed, flushes, store_log, log>>
    /\ UNCHANGED <<d_vars, ct_vars, h_vars, u_vars, v_vars>>

\* lines 493-495: the next chunk source is chunked, or the item is over
LoopSource ==
    /\ pc = "source"
    /\ IF src_idx > Len(chunk_sources)
       THEN /\ item_idx' = item_idx + 1
            /\ pc' = "items"
            /\ UNCHANGED <<chunks, chunk_idx, log>>
       ELSE IF ChunkTextRaises(conf.chunk_size, conf.chunk_overlap)
       THEN RunFails /\ UNCHANGED <<item_idx, chunks, chunk_idx>>
       ELSE /\ chunks' = chunk_text(chunk_sources[src_idx][2],
                                    conf.chunk_size, conf.chunk_overlap)
            /\ chunk_idx' = 1
            /\ pc' = "chunk"
            /\ UNCHANGED <<item_idx, log>>
    /\ UNCHANGED <<req_vars, chunk_sources, base_meta, meta_origin, src_idx,
                   acc_vars, total_uploaded, flush_site, embeddings, records,
                   be_vars, ins_vars, emitted, handed, flushes, store_log>>
    /\ UNCHANGED <<d_vars, ct_vars, h_vars, u_vars, v_vars>>

\* lines 495-523: the next chunk is skipped or accumulated, and a full
\* accumulator is handed to batch_embed_text; or the source is over
LoopChunk ==
    /\ pc = "chunk"
    /\ IF chunk_idx > Len(chunks)
       THEN /\ src_idx' = src_idx + 1
            /\ pc' = "source"
            /\ UNCHANGED <<chunk_idx, acc_vars, emitted, flush_site, be_vars>>
       ELSE IF ~AcceptsChunk(chunks[chunk_idx])
       THEN /\ chunk_idx' = chunk_idx + 1
            /\ UNCHANGED <<pc, src_idx, acc_vars, emitted, flush_site, be_vars>>
       ELSE /\ batched_chunks' = Append(batched_chunks, chunks[chunk_idx])
            /\ batched_meta_list' =
                   Append(batched_meta_list,
                          RelatedMeta(base_meta, meta_origin, conf.global_meta_raw,
                                      chunk_sources[src_idx][1], conf.meta_key_mode))
            /\ emitted' = Append(emitted, [item |-> item_idx,
                                           content |-> chunks[chunk_idx]])
            /\ IF FlushDue(Len(batched_chunks'))
               THEN /\ CallEmbed(batched_chunks', max_batch_size, "loop")
                    /\ UNCHANGED <<chunk_idx, src_idx>>
               ELSE /\ chunk_idx' = chunk_idx + 1
                    /\ UNCHANGED <<pc, src_idx, flush_site, be_vars>>
    /\ UNCHANGED <<req_vars, item_idx, chunk_sources, base_meta, meta_origin,
                   chunks, total_uploaded, embeddings, records, ins_vars,
                   handed, flushes, store_log, log>>
    /\ UNCHANGED <<d_vars, ct_vars, h_vars, u_vars, v_vars>>

\* lines 542-543: the remainder is handed to batch_embed_text
FinalFlush ==
    /\ pc = "items"
    /\ item_idx > Len(json_data)
    /\ batched_chunks # <<>>
    /\ CallEmbed(batched_chunks, max_batch_size, "final")
    /\ UNCHANGED <<req_vars, loop_vars, acc_vars, total_uploaded, embeddings,
                   records, ins_vars, emitted, handed, flushes, store_log, log>>
    /\ UNCHANGED <<d_vars, ct_vars, h_vars, u_vars, v_vars>>

\* lines 542 and 559: nothing is left to flush
Finish ==
    /\ pc = "items"
    /\ item_idx > Len(json_data)
    /\ batched_chunks = <<>>
    /\ pc' = "done"
    /\ log' = log \cup {"FLEX UPLOAD DONE"}
    /\ UNCHANGED <<req_vars, loop_vars, acc_vars, total_uploaded, flush_site,
                   embeddings, records, be_vars, ins_vars,
                   emitted, handed, flushes, store_log>>
    /\ UNCHANGED <<d_vars, ct_vars, h_vars, u_vars, v_vars>>

\* what batch_embed_text leaves alone
EmbedFrame ==
    /\ UNCHANGED <<req_vars, loop_vars, acc_vars, total_uploaded, flush_site,
                   records, ins_vars, emitted, handed, flushes, store_log>>
    /\ UNCHANGED <<d_vars, ct_vars, h_vars, u_vars, v_vars>>

\* the sub-batch is over: the loop of line 157 goes on to the next one, where
\* lines 159-160 set attempt and backoff anew
EmbedAdvance(vectors) ==
    /\ be_embeddings' = be_embeddings \o vectors
    /\ be_i' = be_i + be_max_batch_size
    /\ be_attempt' = 0
    /\ be_backoff' = be_first_backoff

\* lines 158-165: the provider answers
EmbedOk ==
    /\ pc = "embed"
    /\ be_i < Len(be_chunks)
    /\ EmbedAdvance(ProviderReply(SubBatch(be_chunks, be_i, be_max_batch_size)))
    /\ UNCHANGED <<pc, be_chunks, be_max_batch_size, be_zeroed, embeddings, log>>
    /\ EmbedFrame

\* lines 166-174: the provider fails with one of the errors that are retried
EmbedRetryable ==
    /\ pc = "embed"
    /\ be_i < Len(be_chunks)
    /\ IF be_attempt >= be_max_retries
       THEN /\ EmbedAdvance(ZeroFill(SubBatch(be_chunks, be_i, be_max_batch_size)))
            /\ be_zeroed' = be_zeroed \cup {be_i}
            /\ log' = log \cup {"OpenAI Gave up"}
       ELSE /\ be_backoff' = NextBackoff(be_backoff, be_backoff_cap)
            /\ be_attempt' = be_attempt + 1
            /\ UNCHANGED <<be_i, be_embeddings, be_zeroed, log>>
    /\ UNCHANGED <<pc, be_chunks, be_max_batch_size, embeddings>>
    /\ EmbedFrame

\* lines 175-178: any other exception
EmbedUnexpected ==
    /\ pc = "embed"
    /\ be_i < Len(be_chunks)
    /\ EmbedAdvance(ZeroFill(SubBatch(be_chunks, be_i, be_max_batch_size)))
    /\ be_zeroed' = be_zeroed \cup {be_i}
    /\ log' = log \cup {"OpenAI Unexpected"}
    /\ UNCHANGED <<pc, be_chunks, be_max_batch_size, embeddings>>
    /\ EmbedFrame

\* lines 157 and 179: the loop is over and the list is returned
EmbedReturn ==
    /\ pc = "embed"
    /\ ~(be_i < Len(be_chunks))
    /\ embeddings' = be_embeddings
    /\ pc' = "records"
    /\ be_i' = 0
    /\ be_attempt' = 0
    /\ be_backoff' = 0
    /\ be_embeddings' = <<>>
    /\ UNCHANGED <<be_chunks, be_max_batch_size, be_zeroed, log>>
    /\ EmbedFrame

\* the records are built as in lines 524-532 and handed to
\* insert_into_supabase(..., batch_size=size): lines 192-201
RecordsTo(size) ==
    /\ pc = "records"
    /\ records' = MakeRecords(batched_chunks, batched_meta_list, embeddings)
    /\ handed' = handed \o records'
    /\ ins_batch_size' = size
    /\ ins_i' = 0
    /\ ins_attempt' = 0
    /\ ins_backoff' = ins_first_backoff
    /\ pc' = "insert"
    /\ UNCHANGED <<req_vars, loop_vars, acc_vars, total_uploaded, flush_site,
                   embeddings, be_vars, emitted, flushes, store_log, log>>
    /\ UNCHANGED <<d_vars, ct_vars, h_vars, u_vars, v_vars>>

\* lines 524-536 and 544-556
BuildRecords == RecordsTo(supabase_batch_size)

\* what insert_into_supabase leaves alone
InsertFrame ==
    /\ UNCHANGED <<req_vars, loop_vars, acc_vars, total_uploaded, flush_site,
                   embeddings, records, be_vars, emitted, handed, flushes>>
    /\ UNCHANGED <<d_vars, ct_vars, h_vars, u_vars, v_vars>>

\* line 216 leaving the loop of line 202 as well: a give-up ends the call
InsertStops(outcome) ==
    /\ store_log' = Append(store_log,
                           [ start |-> ins_i,
                             n |-> Len(SubBatch(records, ins_i, ins_batch_size)),
                             outcome |-> outcome ])
    /\ ins_i' = IF outcome = "dropped" THEN Len(records)
                ELSE ins_i + ins_batch_size
    /\ ins_attempt' = 0
    /\ ins_backoff' = ins_first_backoff

\* the sub-batch is over, posted or given up: the loop of line 202 goes on
InsertAdvance(outcome) ==
    /\ store_log' = Append(store_log,
                           [ start |-> ins_i,
                             n |-> Len(SubBatch(records, ins_i, ins_batch_size)),
                             outcome |-> outcome ])
    /\ ins_i' = ins_i + ins_batch_size
    /\ ins_attempt' = 0
    /\ ins_backoff' = ins_first_backoff

\* lines 203-210: the store answers 2xx
InsertOk ==
    /\ pc = "insert"
    /\ ins_i < Len(records)
    /\ InsertAdvance("stored")
    /\ UNCHANGED <<pc, ins_batch_size, log>>
    /\ InsertFrame

\* lines 211-219: another status, or an exception of the post
InsertFail ==
    /\ pc = "insert"
    /\ ins_i < Len(records)
    /\ IF ins_attempt >= ins_max_retries
       THEN /\ InsertAdvance("dropped")
            /\ log' = log \cup {"Supabase Gave up"}
       ELSE /\ ins_backoff' = NextBackoff(ins_backoff, ins_backoff_cap)
            /\ ins_attempt' = ins_attempt + 1
            /\ UNCHANGED <<ins_i, store_log, log>>
    /\ UNCHANGED <<pc, ins_batch_size>>
    /\ InsertFrame

\* insert_into_supabase returns; lines 537-539, or lines 557-559
InsertReturn ==
    /\ pc = "insert"
    /\ flush_site \in {"loop", "final"}
    /\ ~(ins_i < Len(records))
    /\ total_uploaded' = total_uploaded + Len(records)
    /\ IF flush_site = "loop"
       THEN /\ batched_chunks' = <<>>
            /\ batched_meta_list' = <<>>
            /\ chunk_idx' = chunk_idx + 1
            /\ pc' = "chunk"
            /\ UNCHANGED log
       ELSE /\ pc' = "done"
            /\ log' = log \cup {"FLEX UPLOAD DONE"}
            /\ UNCHANGED <<acc_vars, chunk_idx>>
    /\ flushes' = Append(flushes, [ site |-> flush_site,
                                    n |-> Len(records),
                                    left |-> Len(batched_chunks') ])
    /\ ins_i' = 0
    /\ ins_attempt' = 0
    /\ ins_backoff' = 0
    /\ UNCHANGED <<req_vars, item_idx, chunk_sources, base_meta, meta_origin,
                   src_idx, chunks, flush_site, embeddings, records, be_vars,
                   ins_batch_size, emitted, handed, store_log>>
    /\ UNCHANGED <<d_vars, ct_vars, h_vars, u_vars, v_vars>>

-----------------------------------------------------------------------------
(* process_flexible_task: the runs *)

\* BigLen characters, one of them a space
BigText == [i \in 1..BigLen |-> IF i = 33 THEN " " ELSE "x"]

\* {"t": "x"}: nothing to chunk under a threshold of 2
ShortItem == JObj(<< <<<<"t">>, JStr(<<"x">>)>> >>)
\* {"b": "     "}: longer than the threshold, and blank
BlankItem == JObj(<< <<<<"b">>, JStr(Repeat(" ", 5))>> >>)
\* {"a": {"t": "xx x"}, "c": {"t": "x"}, "b": "x   x"}
SmallItem ==
    JObj(<< <<<<"a">>, JObj(<< <<<<"t">>, JStr(<<"x", "x", " ", "x">>)>> >>)>>,
            <<<<"c">>, JObj(<< <<<<"t">>, JStr(<<"x">>)>> >>)>>,
            <<<<"b">>, JStr(<<"x", " ", " ", " ", "x">>)>> >>)
\* {"T": "x", "m": {"b": BigText, "d": BigText}}
BigItem ==
    JObj(<< <<<<"T">>, JStr(<<"x">>)>>,
            <<<<"m">>, JObj(<< <<<<"b">>, JStr(BigText)>>,
                               <<<<"d">>, JStr(BigText)>> >>)>> >>)

\* the items of a source come in one of these orders, repeated
HeavyOrder == <<BigItem, BigItem, SmallItem, ShortItem>>
LightOrders ==
    { <<SmallItem, BlankItem, BigItem, ShortItem>>,
      <<ShortItem, BlankItem, JStr(<<"x">>), JNull>> }

FirstItems(order, n) == [i \in 1..n |-> order[((i - 1) % Len(order)) + 1]]

\* no download, no JSON, a scalar, one object, or an array of items
LightSources ==
    {Unreachable, NotJson, Serves(JStr(<<"x">>)), Serves(SmallItem)}
        \cup {Serves(JArr(FirstItems(order, n))) :
                order \in LightOrders, n \in 0..MaxItems}

\* arrays that fill the accumulators more than once
HeavySources == {Serves(JArr(FirstItems(HeavyOrder, n))) : n \in 1..MaxItems}

\* a request with its credentials, a threshold of 2 and chunks of one character
PlainData ==
    [NoData EXCEPT !.openai_key = TRUE, !.supabase_url = TRUE,
                   !.supabase_key = TRUE, !.file_url = TRUE,
                   !.threshold = IntField(2),
                   !.chunk_size = IntField(1), !.chunk_overlap = IntField(0)]

\* chunks of two characters that overlap in one; path keys kept; a global
\* key, an exclusion and a mapping
OverlapData ==
    [PlainData EXCEPT !.chunk_size = IntField(2), !.chunk_overlap = IntField(1),
                      !.meta_key_mode = <<"p", "a", "t", "h">>,
                      !.global_meta_keys = CsvField(<<"T">>),
                      !.exclude_meta_keys = CsvField(<<"c", ",", " ", "z">>),
                      !.metadata_map = << <<<<"k">>, <<"a", ".", "t">>>> >>]

\* chunks of two characters; every field named t is to be chunked
ForcedData ==
    [PlainData EXCEPT !.chunk_size = IntField(2),
                      !.force_chunk_keys = JsonListField(<< <<"'", "T", "'">> >>)]

RunData ==
    { PlainData, OverlapData, ForcedData,
      [PlainData EXCEPT !.chunk_size = IntField(0)],
      [PlainData EXCEPT !.chunk_overlap = BadIntField],
      [PlainData EXCEPT !.supabase_key = FALSE] }

\* every request on the light sources, the plain request on the heavy ones
RunInputs ==
    (RunData \X LightSources) \cup ({PlainData} \X HeavySources)

InitRun ==
    /\ IdleHttp
    /\ IdleUtil
    /\ IdleVideo
    /\ IdleDecide
    /\ IdleChunk
    /\ pc = "start"
    /\ \E input \in RunInputs : data = input[1] /\ source = input[2]
    /\ conf = NoConf
    /\ IdleLoops
    /\ batched_chunks = <<>> /\ batched_meta_list = <<>>
    /\ flush_site = "none"
    /\ embeddings = <<>> /\ records = <<>>
    /\ IdleEmbed /\ IdleInsert /\ NoHistory

Next ==
    \/ Start \/ Fetch
    \/ LoopItem \/ LoopSource \/ LoopChunk \/ FinalFlush \/ Finish
    \/ EmbedOk \/ EmbedRetryable \/ EmbedUnexpected \/ EmbedReturn
    \/ BuildRecords
    \/ InsertOk \/ InsertFail \/ InsertReturn

\* the worker thread runs the task to its end
Spec == InitRun /\ [][Next]_vars /\ WF_vars(Next)

-----------------------------------------------------------------------------
(* batch_embed_text called on its own, by a caller that builds its records *)
(* as lines 524-532 do                                                     *)

\* n chunks, all different
EmbedChunks(n) == [k \in 1..n |-> Repeat("x", k)]

InitEmbed ==
    /\ IdleHttp
    /\ IdleUtil
    /\ IdleVideo
    /\ IdleDecide
    /\ IdleChunk
    /\ pc = "embed"
    /\ data = NoData /\ source = NoSource /\ conf = NoConf
    /\ IdleLoops
    /\ be_chunks \in {EmbedChunks(n) : n \in 0..MaxEmbedChunks}
    /\ be_max_batch_size \in 1..MaxEmbedBatch
    /\ be_i = 0 /\ be_attempt = 0 /\ be_backoff = be_first_backoff
    /\ be_embeddings = <<>> /\ be_zeroed = {}
    /\ batched_chunks = be_chunks
    /\ batched_meta_list = [k \in 1..Len(be_chunks) |->
                               << <<S_source_field, <<"b">>>> >>]
    /\ flush_site = "direct"
    /\ embeddings = <<>> /\ records = <<>>
    /\ IdleInsert /\ NoHistory

NextEmbed ==
    \/ EmbedOk \/ EmbedRetryable \/ EmbedUnexpected \/ EmbedReturn
    \/ BuildRecords

SpecEmbed == InitEmbed /\ [][NextEmbed]_vars /\ WF_vars(NextEmbed)

-----------------------------------------------------------------------------
(* batch_embed_text, then insert_into_supabase, called on their own with *)
(* batch sizes of the caller's choice                                     *)

InitRetry ==
    /\ IdleHttp
    /\ IdleUtil
    /\ IdleVideo
    /\ IdleDecide
    /\ IdleChunk
    /\ pc = "embed"
    /\ data = NoData /\ source = NoSource /\ conf = NoConf
    /\ IdleLoops
    /\ be_chunks \in {EmbedChunks(n) : n \in 0..MaxEmbedChunks}
    /\ be_max_batch_size \in 1..MaxEmbedBatch
    /\ be_i = 0 /\ be_attempt = 0 /\ be_backoff = be_first_backoff
    /\ be_embeddings = <<>> /\ be_zeroed = {}
    /\ batched_chunks = be_chunks
    /\ batched_meta_list = [k \in 1..Len(be_chunks) |->
                               << <<S_source_field, <<"b">>>> >>]
    /\ flush_site = "direct"
    /\ embeddings = <<>> /\ records = <<>>
    /\ ins_batch_size \in 1..MaxInsertBatch
    /\ ins_i = 0 /\ ins_attempt = 0 /\ ins_backoff = 0
    /\ NoHistory

\* the caller passes the batch size it chose
DirectRecords ==
    /\ flush_site = "direct"
    /\ RecordsTo(ins_batch_size)

\* lines 192-193 and 202: insert_into_supabase returns to that caller
DirectReturn ==
    /\ pc = "insert"
    /\ flush_site = "direct"
    /\ ~(ins_i < Len(records))
    /\ pc' = "returned"
    /\ UNCHANGED <<ins_vars, store_log, log>>
    /\ InsertFrame

NextRetry ==
    \/ EmbedOk \/ EmbedRetryable \/ EmbedUnexpected \/ EmbedReturn
    \/ DirectRecords
    \/ InsertOk \/ InsertFail \/ DirectReturn

\* the calls run on: the interpreter takes the next step
SpecRetry == InitRetry /\ [][NextRetry]_vars /\ WF_vars(NextRetry)

-----------------------------------------------------------------------------
(* Properties of the pipeline *)

Contents(rows) == [k \in 1..Len(rows) |-> rows[k].content]

NonBlank(c) == c # <<>> /\ ~IsBlank(c)

\* the chunk sources of item j of the run
SourcesOfItem(j) == DecideItem(json_data[j], conf).chunk_sources

\* item j has no chunk source, or every source of it chunks to blank pieces only
YieldsNoChunk(j) ==
    \A k \in 1..Len(SourcesOfItem(j)) :
        LET pieces == chunk_text(SourcesOfItem(j)[k][2],
                                 conf.chunk_size, conf.chunk_overlap)
        IN  \A i \in 1..Len(pieces) : ~NonBlank(pieces[i])

\* the chunks that were accumulated for item j
RowsOfItem(j) == {k \in 1..Len(emitted) : emitted[k].item = j}

\* C5: every row built, accumulated or handed to the row store has non-blank
\* content and is a chunk accumulated at line 517, and an item that has no
\* chunk source, or whose sources all chunk to no non-blank piece, has no row
\* in any batch.
C5_NoEmptyRows ==
    /\ \A k \in 1..Len(handed) : NonBlank(handed[k].content)
    /\ \A k \in 1..Len(records) : NonBlank(records[k].content)
    /\ \A k \in 1..Len(batched_chunks) : NonBlank(batched_chunks[k])
    /\ Len(handed) <= Len(emitted)
    /\ \A k \in 1..Len(handed) : handed[k].content = emitted[k].content
    /\ pc \in {"items", "done"} =>
          \A j \in 1..Len(json_data) :
              (j < item_idx /\ YieldsNoChunk(j)) => RowsOfItem(j) = {}

\* a finished run that handed rows to the store, with an item that has no
\* chunk source between two items that have rows
C5_Witness ==
    /\ pc = "done"
    /\ handed # <<>>
    /\ \E j \in 1..Len(json_data) :
          /\ SourcesOfItem(j) = <<>>
          /\ \E i \in 1..(j - 1) : RowsOfItem(i) # {}
          /\ \E i \in (j + 1)..Len(json_data) : RowsOfItem(i) # {}

\* the sizes of the flushes made so far, added up
RECURSIVE FlushedRows(_)
FlushedRows(fs) == IF fs = <<>> THEN 0 ELSE Head(fs).n + FlushedRows(Tail(fs))

InLoops == pc \in {"items", "source", "chunk"}

\* the accumulators have one length, at most 128, and below 128 between flushes
AccumulatorsBounded ==
    /\ Len(batched_chunks) = Len(batched_meta_list)
    /\ Len(batched_chunks) <= 128
    /\ InLoops => Len(batched_chunks) < 128
    /\ (pc \in {"embed", "records", "insert"} /\ flush_site = "loop")
          => Len(batched_chunks) = 128

\* a flush in the loop has 128 rows; a final flush has fewer, is the last one,
\* and ends the run
FlushesWhenDue ==
    \A k \in 1..Len(flushes) :
        /\ flushes[k].site \in {"loop", "final"}
        /\ flushes[k].site = "loop" => flushes[k].n = 128
        /\ flushes[k].site = "final" =>
              /\ flushes[k].n \in 1..127
              /\ k = Len(flushes)
              /\ pc = "done"

\* the rows handed over, then the rows waiting, are the chunks in the order of
\* their emission; a run that is done has handed over all of them
HandedOnceInOrder ==
    /\ InLoops => Contents(handed) \o batched_chunks = Contents(emitted)
    /\ pc = "done" =>
          /\ Contents(handed) = Contents(emitted)
          /\ FlushedRows(flushes) = Len(emitted)
          /\ Len(flushes) = (Len(emitted) + 127) \div 128

\* C10 as it is stated: ... and the accumulators are empty after each flush
C10_Original ==
    /\ AccumulatorsBounded
    /\ FlushesWhenDue
    /\ HandedOnceInOrder
    /\ \A k \in 1..Len(flushes) : flushes[k].left = 0

\* C10: every chunk accumulated in a run that ends without an exception is
\* handed to the row store in exactly one flush, in the order of emission; a
\* flush is made exactly when the accumulators reach 128 entries and once more
\* at the end when they are not empty; the two accumulators have the same
\* length, never above 128; they are empty after each flush made in the loop,
\* and after the final flush they still hold the rows of that flush.
C10_FlushOnceInOrder ==
    /\ AccumulatorsBounded
    /\ FlushesWhenDue
    /\ HandedOnceInOrder
    /\ \A k \in 1..Len(flushes) :
          flushes[k].left = IF flushes[k].site = "loop" THEN 0 ELSE flushes[k].n

\* a finished run with two flushes in the loop and a final one
C10_Witness ==
    /\ pc = "done"
    /\ Len(flushes) = 3
    /\ flushes[1].site = "loop" /\ flushes[2].site = "loop"
    /\ flushes[3].site = "final"
    /\ "FLEX TASK ERROR" \notin log

-----------------------------------------------------------------------------
(* Properties of batch_embed_text *)

\* the start i of the sub-batch that position k (from 1) of the chunks is in
SubBatchStart(k) == ((k - 1) \div be_max_batch_size) * be_max_batch_size

\* what position k of the result holds: the provider's vector for chunk k, or
\* a zero vector of length 1536 when the sub-batch of k was not embedded
ExpectedVector(k) ==
    IF SubBatchStart(k) \in be_zeroed
    THEN [kind |-> "zero", of |-> <<>>, dim |-> 1536]
    ELSE [kind |-> "real", of |-> be_chunks[k], dim |-> 1536]

\* C9: whatever the provider's failures, batch_embed_text holds after each
\* sub-batch, and returns, one vector per chunk so far in input order, a zero
\* vector of length 1536 for every chunk of a sub-batch that was not embedded;
\* the records built from the result are as many as the accumulated chunks and
\* record i has content i, metadata i and the vector of content i.
C9_EmbeddingAlignment ==
    /\ pc = "embed" =>
          /\ Len(be_embeddings) = Min(be_i, Len(be_chunks))
          /\ \A k \in 1..Len(be_embeddings) : be_embeddings[k] = ExpectedVector(k)
    /\ pc \in {"records", "insert"} =>
          /\ Len(embeddings) = Len(be_chunks)
          /\ \A k \in 1..Len(embeddings) : embeddings[k] = ExpectedVector(k)
    /\ pc = "insert" =>
          /\ Len(records) = Len(batched_chunks)
          /\ \A i \in 1..Len(records) :
                /\ records[i].content = batched_chunks[i]
                /\ records[i].metadata = batched_meta_list[i]
                /\ records[i].embedding = ExpectedVector(i)

\* records built from a result of three sub-batches or more: one embedded,
\* one given up after the retries, one ended by an unexpected error
C9_Witness ==
    /\ pc = "insert"
    /\ Len(records) >= 3
    /\ \E i \in 1..Len(records) : records[i].embedding.kind = "real"
    /\ "OpenAI Gave up" \in log
    /\ "OpenAI Unexpected" \in log

-----------------------------------------------------------------------------
(* Properties of the retry loops *)

RECURSIVE Pow2(_)
Pow2(k) == IF k = 0 THEN 1 ELSE 2 * Pow2(k - 1)

\* the embedding sub-batch at hand has been tried be_attempt times without
\* success; the wait that a further failure brings is be_backoff
EmbedLoopBounded ==
    pc = "embed" =>
        /\ be_attempt \in 0..5
        /\ be_backoff = Min(4 * Pow2(be_attempt), 30)
        /\ be_backoff <= 30

InsertLoopBounded ==
    pc = "insert" =>
        /\ ins_attempt \in 0..5
        /\ ins_backoff = Min(3 * Pow2(ins_attempt), 20)
        /\ ins_backoff <= 20

\* a step inside a retry loop either ends the sub-batch or is one more failed
\* attempt, after which the next wait is the doubled one, capped
EmbedStep ==
    (pc = "embed" /\ pc' = "embed") =>
        \/ be_i' = be_i + be_max_batch_size
        \/ /\ be_i' = be_i
           /\ be_attempt < 5
           /\ be_attempt' = be_attempt + 1
           /\ be_backoff' = Min(2 * be_backoff, 30)

InsertStep ==
    (pc = "insert" /\ pc' = "insert") =>
        \/ ins_i' = ins_i + ins_batch_size
        \/ /\ ins_i' = ins_i
           /\ ins_attempt < 5
           /\ ins_attempt' = ins_attempt + 1
           /\ ins_backoff' = Min(2 * ins_backoff, 20)

\* C11: a sub-batch is tried at most 6 times in batch_embed_text and in
\* insert_into_supabase; the waits between the tries start at 4 s and 3 s,
\* double, and are capped at 30 s and 20 s; and whatever the collaborators
\* answer, each call of the two functions comes to its end.
C11_BoundedRetry ==
    /\ [](EmbedLoopBounded /\ InsertLoopBounded)
    /\ [][EmbedStep /\ InsertStep]_vars
    /\ (pc = "embed") ~> (pc = "records")
    /\ (pc = "insert") ~> (pc = "returned")

\* the row store has failed five times on a sub-batch, the wait has reached its
\* ceiling, and the embedding of some chunks was given up after six tries
C11_Witness ==
    /\ pc = "insert"
    /\ ins_attempt = 5
    /\ ins_backoff = 20
    /\ be_zeroed # {}
    /\ "OpenAI Gave up" \in log

-----------------------------------------------------------------------------
(* Properties of a run: progress and failure *)

\* a < b in the lexicographic order of tuples of one length
RECURSIVE LexLess(_, _)
LexLess(a, b) ==
    IF a = <<>> THEN FALSE
    ELSE \/ Head(a) < Head(b)
         \/ Head(a) = Head(b) /\ LexLess(Tail(a), Tail(b))

InFlush == pc \in {"embed", "records", "insert"}

\* how far the run is: the part of the task, then the positions of the loops
\* of lines 481, 493 and 495, then the step of the flush and the positions of
\* its own loops
RunRank ==
    << CASE pc = "start" -> 0
         [] pc = "fetch" -> 1
         [] InLoops \/ (InFlush /\ flush_site = "loop") -> 2
         [] InFlush -> 3
         [] OTHER -> 4,
       item_idx,
       IF pc = "items" THEN 0 ELSE src_idx,
       IF pc \in {"items", "source"} THEN 0 ELSE chunk_idx,
       CASE pc = "embed" -> 1 [] pc = "records" -> 2 [] pc = "insert" -> 3
         [] OTHER -> 0,
       IF pc = "embed" THEN be_i ELSE 0,
       IF pc = "embed" THEN be_attempt ELSE 0,
       IF pc = "insert" THEN ins_i ELSE 0,
       IF pc = "insert" THEN ins_attempt ELSE 0 >>

\* the positions stay inside what the run was given
RunRankBounded ==
    /\ item_idx <= Len(json_data) + 1
    /\ (pc \in {"source", "chunk"} \/ (InFlush /\ flush_site = "loop")) =>
          src_idx <= Len(chunk_sources) + 1
    /\ (pc = "chunk" \/ (InFlush /\ flush_site = "loop")) =>
          chunk_idx <= Len(chunks) + 1
    /\ be_i <= Len(be_chunks) + be_max_batch_size
    /\ ins_i <= Len(records) + ins_batch_size
    /\ be_attempt <= be_max_retries
    /\ ins_attempt <= ins_max_retries

\* every step takes the run further, so no run goes round in circles
RunAdvances == LexLess(RunRank, RunRank')

\* the rows of the sub-batches posted so far, stored or dropped
RECURSIVE PostedRows(_)
PostedRows(posts) ==
    IF posts = <<>> THEN 0 ELSE Head(posts).n + PostedRows(Tail(posts))

Dropped == {k \in 1..Len(store_log) : store_log[k].outcome = "dropped"}

\* every sub-batch of every call that is over was posted, and of the call at
\* hand every sub-batch before ins_i
AllSubBatchesPosted ==
    PostedRows(store_log) =
        IF pc = "insert"
        THEN Len(handed) - Len(records) + Min(ins_i, Len(records))
        ELSE Len(handed)

\* the step that gives a sub-batch up logs it and stays in the loop of line 202
GiveUpGoesOn ==
    (Len(store_log') > Len(store_log)
       /\ store_log'[Len(store_log')].outcome = "dropped") =>
        /\ "Supabase Gave up" \in log'
        /\ pc' = "insert"
        /\ ins_i' = ins_i + ins_batch_size
        /\ UNCHANGED <<records, handed, acc_vars, emitted>>

\* C12: a sub-batch of rows that exhausts its retries is logged and dropped;
\* no exception follows (a run that posted anything never fails); the
\* sub-batches after it in the same call and the batches after it in the run
\* are still posted; and the run goes on, every step taking it further, to the
\* end where all emitted chunks were posted and the completion is logged.
C12_DropDegrades ==
    /\ [](Dropped # {} => "Supabase Gave up" \in log)
    /\ [](store_log # <<>> => pc # "failed" /\ "FLEX TASK ERROR" \notin log)
    /\ [](AllSubBatchesPosted)
    /\ [](pc = "done" => /\ PostedRows(store_log) = Len(emitted)
                         /\ "FLEX UPLOAD DONE" \in log)
    /\ [](RunRankBounded)
    /\ [][GiveUpGoesOn /\ RunAdvances]_vars

\* a finished run whose first sub-batch was dropped and whose later
\* sub-batches, of the same flush and of the next ones, were stored
C12_Witness ==
    /\ pc = "done"
    /\ Len(flushes) >= 2
    /\ Len(store_log) >= 4
    /\ store_log[1].outcome = "dropped"
    /\ \A k \in 2..Len(store_log) : store_log[k].outcome = "stored"

\* the positions of a run of process_flexible_task
RunPositions ==
    {"start", "fetch", "items", "source", "chunk", "embed", "records", "insert",
     "done", "failed"}

\* the request or the chunk parameters raise: lines 442-443, 448, 461-462
\* and, once a chunk source is reached, lines 111-114
BadConfiguration == pc # "start" /\ StartRaises(data)

\* the download, json.loads or the test of line 471 raises
BadSource == pc \notin {"start", "fetch"} /\ ~StartRaises(data) /\ FetchRaises(source)

\* the step about to be taken raises: lines 436-462, lines 464-471, or the
\* call of chunk_text at line 494 with parameters that lines 111-114 reject
RaisesNow ==
    \/ pc = "start" /\ StartRaises(data)
    \/ pc = "fetch" /\ FetchRaises(source)
    \/ /\ pc = "source" /\ src_idx <= Len(chunk_sources)
       /\ ChunkTextRaises(conf.chunk_size, conf.chunk_overlap)

\* with parameters that chunk_text rejects no chunk is ever produced
BadChunkParams ==
    /\ pc \notin {"start", "fetch"}
    /\ ~StartRaises(data) /\ ~FetchRaises(source)
    /\ ChunkTextRaises(conf.chunk_size, conf.chunk_overlap)

\* no call of batch_embed_text and none of insert_into_supabase was made
NoCollaboratorCall ==
    /\ flush_site = "none"
    /\ be_chunks = <<>> /\ embeddings = <<>> /\ records = <<>>
    /\ handed = <<>> /\ flushes = <<>> /\ store_log = <<>>
    /\ total_uploaded = 0

\* an exception ended the run at the except clause, with its log line and
\* without the completion line
CaughtAndLogged ==
    /\ pc = "failed"
    /\ "FLEX TASK ERROR" \in log
    /\ "FLEX UPLOAD DONE" \notin log

FailureIsolated ==
    /\ pc \in RunPositions
    /\ (BadConfiguration \/ BadSource) => CaughtAndLogged
    /\ (pc = "failed") => CaughtAndLogged
    /\ (BadConfiguration \/ BadSource \/ BadChunkParams) => NoCollaboratorCall
    /\ BadChunkParams => pc \in {"items", "source", "done", "failed"} /\ emitted = <<>>
    /\ ("FLEX TASK ERROR" \in log) => pc = "failed"

\* C15: an exception raised in a run of process_flexible_task (missing
\* configuration, failed download, invalid JSON, a payload that is neither an
\* object nor an array, invalid chunk parameters) is caught by the run's except
\* clause and logged, and ends the run: no step follows it; a run whose source
\* cannot be fetched makes no embedding call and no row-store call.
C15_FailureIsolation ==
    /\ []FailureIsolated
    /\ [][RaisesNow => CaughtAndLogged']_vars
    /\ [][pc \notin {"failed", "escaped"}]_vars

\* a run with a valid request whose download failed
C15_Witness ==
    /\ BadSource
    /\ source = Unreachable
    /\ CaughtAndLogged
    /\ NoCollaboratorCall

-----------------------------------------------------------------------------
(* main.py: the two ingestion endpoints *)

\* main.py lines 51-55: the names of the absent fields, in the order of the tests
MissingFields(req) ==
    (IF ~req.x_openai_api_key THEN <<"x-openai-api-key">> ELSE <<>>)
    \o (IF ~req.x_supabase_url THEN <<"x-supabase-url">> ELSE <<>>)
    \o (IF ~req.x_supabase_key THEN <<"x-supabase-key">> ELSE <<>>)
    \o (IF ~req.json_url THEN <<"json_url">> ELSE <<>>)

\* main.py lines 59-82: the dict handed to process_flexible_task
SmartData(req) ==
    [req.form EXCEPT !.openai_key = req.x_openai_api_key,
                     !.supabase_url = req.x_supabase_url,
                     !.supabase_key = req.x_supabase_key,
                     !.file_url = req.json_url]

Respond(status, missing) ==
    /\ h_response' = [status |-> status, missing |-> missing]
    /\ h_pc' = "responded"
    /\ UNCHANGED <<h_endpoint, h_request>>

\* main.py lines 18-45: no field is tested; json.loads of the metadata field
\* may raise (500); otherwise process_upload_task is started and 202 returned.
\* What that thread does is outside this model.
UploadFlexible ==
    /\ h_pc = "request"
    /\ h_endpoint = "upload-flexible"
    /\ IF ~h_request.metadata_parses
       THEN Respond(500, <<>>) /\ UNCHANGED h_thread
       ELSE Respond(202, <<>>) /\ h_thread' = "process_upload_task"
    /\ UNCHANGED <<d_vars, ct_vars, r_vars, u_vars, v_vars>>

\* main.py lines 48-96: 400 with the missing fields; or 500 when json.loads of
\* the metadata field raises; or process_flexible_task is started on the data
\* and 202 returned
UploadFlexibleSmart ==
    /\ h_pc = "request"
    /\ h_endpoint = "upload-flexible-smart"
    /\ IF MissingFields(h_request) # <<>>
       THEN /\ Respond(400, MissingFields(h_request))
            /\ UNCHANGED <<h_thread, pc, data>>
       ELSE IF ~h_request.metadata_parses
       THEN /\ Respond(500, <<>>)
            /\ UNCHANGED <<h_thread, pc, data>>
       ELSE /\ Respond(202, <<>>)
            /\ h_thread' = "process_flexible_task"
            /\ data' = SmartData(h_request)
            /\ pc' = "start"
    /\ UNCHANGED <<source, conf, json_data, loop_vars, acc_vars, total_uploaded,
                   flush_site, embeddings, records, be_vars, ins_vars,
                   emitted, handed, flushes, store_log, log>>
    /\ UNCHANGED <<d_vars, ct_vars, u_vars, v_vars>>

\* the form fields of the requests: chunks of one character, of no character,
\* or a chunk_size or chunk_overlap that int() rejects
HttpForms ==
    { [NoData EXCEPT !.threshold = IntField(2),
                     !.chunk_size = cs, !.chunk_overlap = co] :
        cs \in {IntField(1), IntField(0), BadIntField},
        co \in {IntField(0), BadIntField} }

HttpRequests ==
    { [ x_openai_api_key |-> a, x_supabase_url |-> b, x_supabase_key |-> c,
        json_url |-> d, metadata_parses |-> mp, form |-> f ] :
        a \in BOOLEAN, b \in BOOLEAN, c \in BOOLEAN, d \in BOOLEAN,
        mp \in BOOLEAN, f \in HttpForms }

\* no download, an array whose first item yields chunks, an array that yields none
HttpSources ==
    {Unreachable, Serves(JArr(<<SmallItem, ShortItem>>)), Serves(JArr(<<ShortItem>>))}

InitHttp ==
    /\ IdleDecide
    /\ IdleChunk
    /\ h_pc = "request"
    /\ h_endpoint \in {"upload-flexible", "upload-flexible-smart"}
    /\ h_request \in HttpRequests
    /\ h_response = NoResponse
    /\ h_thread = "none"
    /\ IdleUtil
    /\ IdleVideo
    /\ pc = "idle"
    /\ data = NoData
    /\ source \in HttpSources
    /\ conf = NoConf
    /\ IdleLoops
    /\ batched_chunks = <<>> /\ batched_meta_list = <<>>
    /\ flush_site = "none"
    /\ embeddings = <<>> /\ records = <<>>
    /\ IdleEmbed /\ IdleInsert /\ NoHistory

\* the handler, then the thread it started
NextHttp == UploadFlexible \/ UploadFlexibleSmart \/ Next

SpecHttp == InitHttp /\ [][NextHttp]_vars /\ WF_vars(NextHttp)

-----------------------------------------------------------------------------
(* Properties of the endpoints *)

\* the identifiers a request lacks
Lacking(req) ==
    {f \in {"x-openai-api-key", "x-supabase-url", "x-supabase-key", "json_url"} :
        \/ f = "x-openai-api-key" /\ ~req.x_openai_api_key
        \/ f = "x-supabase-url" /\ ~req.x_supabase_url
        \/ f = "x-supabase-key" /\ ~req.x_supabase_key
        \/ f = "json_url" /\ ~req.json_url}

Answered == h_pc = "responded"

\* the answer is an error that lists exactly the fields in missing, and no
\* thread was started
RefusedListing(missing) ==
    /\ h_response.status \in 400..499
    /\ {h_response.missing[k] : k \in 1..Len(h_response.missing)} = missing
    /\ h_thread = "none"

\* C13: at both endpoints a request that lacks the OpenAI key, the Supabase
\* URL, the Supabase key or json_url is answered with an error listing exactly
\* the missing fields, and no thread is started for it.
C13_Original ==
    (Answered /\ Lacking(h_request) # {}) => RefusedListing(Lacking(h_request))

\* the chunk parameters of a request that int() rejects, or a chunk_size that
\* is not positive
InvalidChunkParams(req) ==
    \/ ~req.form.chunk_size.ok
    \/ ~req.form.chunk_overlap.ok
    \/ req.form.chunk_size.v <= 0

\* C14: a request to /upload-flexible-smart with a chunk_size or chunk_overlap
\* that is not an integer, or a chunk_size that is not positive, is answered
\* with an error and no thread is started for it.
C14_Original ==
    (Answered /\ h_endpoint = "upload-flexible-smart"
        /\ InvalidChunkParams(h_request)) =>
        /\ h_response.status # 202
        /\ h_thread = "none"

-----------------------------------------------------------------------------
(* _compile_patterns and _match_any, called on one token and one path *)

MaxPathDepth == 3

\* keys of objects, one of them with a line break in it
PathKeys == { <<"a">>, <<"b">>, <<"b", "a">>, <<"\n", "a">> }
PathIndexes == {0, 12}

KeyStep(k) == [k |-> "key", name |-> k, i |-> 0]
IndexStep(i) == [k |-> "index", name |-> <<>>, i |-> i]
PathSteps == {KeyStep(k) : k \in PathKeys} \cup {IndexStep(i) : i \in PathIndexes}

\* the key flatten_item builds on the way to a leaf: lines 244 and 248
RECURSIVE PathOf(_)
PathOf(steps) ==
    IF steps = <<>> THEN <<>>
    ELSE LET parent == PathOf(SubSeq(steps, 1, Len(steps) - 1))
             step == steps[Len(steps)]
         IN  IF step.k = "key"
             THEN IF parent # <<>> THEN parent \o <<".">> \o step.name
                  ELSE step.name
             ELSE parent \o <<"[">> \o IntToStr(step.i) \o <<"]">>

RECURSIVE StepsUpTo(_)
StepsUpTo(n) ==
    IF n = 0 THEN {<<>>}
    ELSE LET shorter == StepsUpTo(n - 1)
         IN  shorter \cup {Append(q, st) : q \in shorter, st \in PathSteps}

\* the lower-cased paths of leaves at most MaxPathDepth deep: line 354
MatchPaths == {Lower(PathOf(q)) : q \in StepsUpTo(MaxPathDepth) \ {<<>>}}

SimpleTokens == { <<"a">>, <<"b">>, <<"b", "a">> }

ComplexTokens ==
    { <<"a", ".", "*">>, <<"*", ".", "a">>, <<"a", "[", "*", "]">>,
      <<"a", "[", "*", "]", ".", "b">>, <<"*">>, <<"a", ".", "b">>,
      <<"*", "[", "*", "]">>, <<"a", "*">>, <<"a", "[", "1", "2", "]">> }

InitMatch ==
    /\ IdleDecide /\ IdleChunk /\ IdleRun /\ IdleHttp /\ IdleVideo
    /\ u_pc = "call"
    /\ u_args \in [raw_tokens : {<<tok>> : tok \in SimpleTokens \cup ComplexTokens},
                   path_lc : MatchPaths]
    /\ u_ret = [compiled |-> <<>>, matched |-> FALSE]

\* lines 54-88, once per request (lines 456-459)
CompilePatterns ==
    /\ u_pc = "call"
    /\ u_ret' = [u_ret EXCEPT !.compiled = compile_patterns(u_args.raw_tokens)]
    /\ u_pc' = "compiled"
    /\ UNCHANGED u_args
    /\ UNCHANGED <<d_vars, ct_vars, r_vars, h_vars, v_vars>>

\* lines 91-92, once per path (lines 361-364)
MatchAny ==
    /\ u_pc = "compiled"
    /\ u_ret' = [u_ret EXCEPT !.matched = match_any(u_args.path_lc, u_ret.compiled)]
    /\ u_pc' = "done"
    /\ UNCHANGED u_args
    /\ UNCHANGED <<d_vars, ct_vars, r_vars, h_vars, v_vars>>

NextMatch == CompilePatterns \/ MatchAny

SpecMatch == InitMatch /\ [][NextMatch]_vars /\ WF_vars(NextMatch)

-----------------------------------------------------------------------------
(* Properties of the patterns *)

MToken == u_args.raw_tokens[1]
MPath == u_args.path_lc
Matched == u_pc = "done" /\ u_ret.matched

\* the path is the token, or begins with the token and "." or "["
SubtreeRootMatch(path, tok) ==
    \/ path = tok
    \/ StartsWith(path, tok \o <<".">>)
    \/ StartsWith(path, tok \o <<"[">>)

\* the last "."-delimited segment of the path, every "[i]" removed, is the token
LeafAnywhereMatch(path, tok) == LastDotSegment(StripIndexes(path, 1)) = tok

\* C16: the patterns compiled from a simple-name token match a lower-cased
\* path exactly when the path is a subtree-root match (the token, or a path
\* beginning with the token and "." or "[") or a leaf-anywhere match (its
\* last "."-delimited segment, with every "[i]" removed, equals the token).
C16_Original ==
    (u_pc = "done" /\ token_is_simple_name(MToken)) =>
        (u_ret.matched <=>
            SubtreeRootMatch(MPath, MToken) \/ LeafAnywhereMatch(MPath, MToken))

\* the path from position i on can be read as the token from position j on:
\* "[*]" as a bracketed index, any other "*" as any characters, the rest as is
RECURSIVE ReadsAs(_, _, _, _)
ReadsAs(path, i, tok, j) ==
    IF j > Len(tok) THEN i > Len(path)
    ELSE IF j + 2 <= Len(tok) /\ tok[j] = "[" /\ tok[j+1] = "*" /\ tok[j+2] = "]"
    THEN /\ i <= Len(path) /\ path[i] = "["
         /\ \E e \in (i + 2)..Len(path) :
                /\ path[e] = "]"
                /\ \A k \in (i + 1)..(e - 1) : IsDigit(path[k])
                /\ ReadsAs(path, e + 1, tok, j + 3)
    ELSE IF tok[j] = "*"
    THEN \E e \in i..(Len(path) + 1) : ReadsAs(path, e, tok, j + 1)
    ELSE /\ i <= Len(path) /\ path[i] = tok[j]
         /\ ReadsAs(path, i + 1, tok, j + 1)

\* C20: the pattern compiled from a token with ".", "[", "]" or "*" matches a
\* lower-cased path exactly when the whole path reads as the token, with every
\* "[*]" replaced by a bracketed index, every other "*" by any sequence of
\* characters, empty or not, and every other character by itself.
C20_Original ==
    (u_pc = "done" /\ ~token_is_simple_name(MToken)) =>
        (u_ret.matched <=> ReadsAs(MPath, 1, MToken, 1))

-----------------------------------------------------------------------------
(* _compress_meta_keys, called on its own: one action per loop iteration *)

MaxMetaKeys == 3

\* keys as decide_chunk_or_meta_for_item_paths emits them: paths with a
\* shared leaf, a leaf spelled like a suffixed one, an indexed leaf, and
\* keys that are not path-like: root-level paths and a mapped output key
MetaKeyPool ==
    { <<"a", ".", "t">>, <<"b", ".", "T">>, <<"m", "[", "0", "]", ".", "t">>,
      <<"b", ".", "t", "_", "2">>, <<"a", "[", "0", "]">>,
      <<"t">>, <<"t", "_", "2">>, <<"k">> }

RECURSIVE KeyListsUpTo(_)
\* the lists of at most n distinct keys of the pool
KeyListsUpTo(n) ==
    IF n = 0 THEN {<<>>}
    ELSE LET shorter == KeyListsUpTo(n - 1)
         IN  shorter \cup
             {Append(q, k) : q \in shorter, k \in MetaKeyPool}

KeysDistinct(q) == \A i, j \in 1..Len(q) : i # j => q[i] # q[j]

\* the value stored under k, and the path it came from
ValueOf(k) == <<"=">> \o k
SourceOf(k) == IF k = <<"k">> THEN <<"m", ".", "t">> ELSE k

MetaOf(q) == [i \in 1..Len(q) |-> <<q[i], ValueOf(q[i])>>]
MetaOriginOf(q) == [i \in 1..Len(q) |-> <<q[i], SourceOf(q[i])>>]

S_path == <<"p", "a", "t", "h">>

InitCompress ==
    /\ IdleDecide /\ IdleChunk /\ IdleRun /\ IdleHttp /\ IdleVideo
    /\ u_pc = "call"
    /\ \E q \in {l \in KeyListsUpTo(MaxMetaKeys) : KeysDistinct(l)} :
       \E o \in {MetaOriginOf(q), <<>>} :
       \E mode \in {S_leaf, S_path} :
            u_args = [meta |-> MetaOf(q), meta_origin |-> o, mode |-> mode]
    /\ u_ret = [new_meta |-> <<>>, new_origin |-> <<>>, assigned |-> <<>>]

\* lines 311-314: the inputs are returned, or the loop starts on empty dicts
CompressEnter ==
    /\ u_pc = "call"
    /\ IF u_args.mode # S_leaf
       THEN /\ u_ret' = [new_meta |-> u_args.meta,
                         new_origin |-> u_args.meta_origin,
                         assigned |-> <<>>]
            /\ u_pc' = "done"
       ELSE /\ UNCHANGED u_ret
            /\ u_pc' = "loop"
    /\ UNCHANGED u_args
    /\ UNCHANGED <<d_vars, ct_vars, r_vars, h_vars, v_vars>>

\* lines 315-329: the next key; assigned records the key it was written under
CompressKey ==
    /\ u_pc = "loop"
    /\ Len(u_ret.assigned) < Len(u_args.meta)
    /\ LET i == Len(u_ret.assigned) + 1
           acc == CompressStep(u_args.meta, u_args.meta_origin, i,
                               <<u_ret.new_meta, u_ret.new_origin>>)
       IN  u_ret' = [new_meta |-> acc[1], new_origin |-> acc[2],
                     assigned |-> Append(u_ret.assigned,
                                         NewKey(u_ret.new_meta, u_args.meta[i][1]))]
    /\ UNCHANGED <<u_pc, u_args>>
    /\ UNCHANGED <<d_vars, ct_vars, r_vars, h_vars, v_vars>>

\* line 331
CompressReturn ==
    /\ u_pc = "loop"
    /\ Len(u_ret.assigned) = Len(u_args.meta)
    /\ u_pc' = "done"
    /\ UNCHANGED <<u_args, u_ret>>
    /\ UNCHANGED <<d_vars, ct_vars, r_vars, h_vars, v_vars>>

NextCompress == CompressEnter \/ CompressKey \/ CompressReturn

SpecCompress == InitCompress /\ [][NextCompress]_vars /\ WF_vars(NextCompress)

-----------------------------------------------------------------------------
(* Properties of the key compression *)

CKey(i) == u_args.meta[i][1]
CLeaf(i) == leaf_name(CKey(i))
CAssigned(i) == u_ret.assigned[i]
\* the keys handled so far
CDone == 1..Len(u_ret.assigned)

\* leaf, leaf_2, leaf_3, ...
SuffixedName(leaf, j) ==
    IF j = 1 THEN leaf ELSE leaf \o <<"_">> \o IntToStr(j)

\* the path-like keys before key i that share its leaf
EarlierOfLeaf(i) ==
    {g \in 1..(i - 1) : IsPathLike(CKey(g)) /\ CLeaf(g) = CLeaf(i)}

\* the output keys written before key i
TakenBefore(i) == {CAssigned(g) : g \in 1..(i - 1)}

\* the entry under the output key of key i is the entry of key i
EntryFollows(i) ==
    /\ DictHas(u_ret.new_meta, CAssigned(i))
    /\ DictGet(u_ret.new_meta, CAssigned(i)) = u_args.meta[i][2]
    /\ DictHas(u_ret.new_origin, CAssigned(i))
    /\ DictGet(u_ret.new_origin, CAssigned(i))
           = OriginOf(u_args.meta_origin, CKey(i))

OtherModeUnchanged ==
    (u_pc = "done" /\ u_args.mode # S_leaf) =>
        /\ u_ret.new_meta = u_args.meta
        /\ u_ret.new_origin = u_args.meta_origin

FirstFreeName(i) ==
    \E j \in 1..i :
        /\ CAssigned(i) = SuffixedName(CLeaf(i), j)
        /\ CAssigned(i) \notin TakenBefore(i)
        /\ \A h \in 1..(j - 1) : SuffixedName(CLeaf(i), h) \in TakenBefore(i)

\* the last key written under the output key of key i
LastWriter(i) ==
    CHOOSE g \in CDone :
        /\ CAssigned(g) = CAssigned(i)
        /\ \A h \in CDone : CAssigned(h) = CAssigned(i) => h <= g

LeafCompression ==
    /\ OtherModeUnchanged
    /\ u_args.mode = S_leaf =>
        /\ \A i \in CDone :
            /\ IsPathLike(CKey(i)) => FirstFreeName(i)
            /\ ~IsPathLike(CKey(i)) => CAssigned(i) = CKey(i)
            /\ EntryFollows(LastWriter(i))
            /\ \A g \in EarlierOfLeaf(i) :
                IsPathLike(CKey(i)) =>
                    \E a, b \in 1..i :
                        /\ a < b
                        /\ CAssigned(g) = SuffixedName(CLeaf(i), a)
                        /\ CAssigned(i) = SuffixedName(CLeaf(i), b)
        /\ DictKeys(u_ret.new_meta) = {CAssigned(i) : i \in CDone}
        /\ Len(u_ret.new_origin) = Len(u_ret.new_meta)
        /\ \A n \in 1..Len(u_ret.new_meta) :
               u_ret.new_origin[n][1] = u_ret.new_meta[n][1]

C21_Original ==
    (u_pc = "done" /\ u_args.mode = S_leaf) =>
        /\ Len(u_ret.new_meta) = Len(u_args.meta)
        /\ \A i, j \in CDone : i # j => CAssigned(i) # CAssigned(j)
        /\ \A i \in CDone : EntryFollows(i)

-----------------------------------------------------------------------------
(* flatten_item and the lower-cased view of its result, lines 353-354 *)

MaxFields == 2

\* what a field of an item holds: a leaf, an empty or a small container
FieldValues ==
    { JStr(<<"x">>), JNull, JObj(<<>>), JArr(<<>>),
      JObj(<< <<<<"b">>, JStr(<<"x">>)>> >>),
      JObj(<< <<<<"B">>, JStr(<<"x", "x">>)>> >>),
      JObj(<< <<<<"b">>, JStr(<<"x">>)>>, <<<<"B">>, JNull>> >>),
      JArr(<<JStr(<<"x">>)>>),
      JArr(<<JStr(<<"x">>), JObj(<< <<<<"b">>, JNull>> >>)>>) }

\* keys of an item: two that differ in case only, one with a "." in it
FieldKeys == { <<"a">>, <<"A">>, <<"a", ".", "b">> }

RECURSIVE FieldListsUpTo(_)
FieldListsUpTo(n) ==
    IF n = 0 THEN {<<>>}
    ELSE LET shorter == FieldListsUpTo(n - 1)
         IN  shorter \cup
             {Append(q, <<k, v>>) : q \in shorter, k \in FieldKeys, v \in FieldValues}

\* the objects of at most MaxFields fields; a dict has no key twice
FlattenItems ==
    {JObj(q) : q \in {l \in FieldListsUpTo(MaxFields) :
                        \A i, j \in 1..Len(l) : i # j => l[i][1] # l[j][1]}}

InitFlatten ==
    /\ IdleDecide /\ IdleChunk /\ IdleRun /\ IdleHttp /\ IdleVideo
    /\ u_pc = "call"
    /\ u_args \in [item : FlattenItems]
    /\ u_ret = [flat |-> <<>>, flat_lc |-> <<>>]

\* line 353
FlattenItem ==
    /\ u_pc = "call"
    /\ u_ret' = [u_ret EXCEPT !.flat = flatten_item(u_args.item, <<>>)]
    /\ u_pc' = "flat"
    /\ UNCHANGED u_args
    /\ UNCHANGED <<d_vars, ct_vars, r_vars, h_vars, v_vars>>

\* line 354: the entries the loop of line 360 visits
LowerKeys ==
    /\ u_pc = "flat"
    /\ u_ret' = [u_ret EXCEPT !.flat_lc = LowerKeyed(u_ret.flat, <<>>)]
    /\ u_pc' = "done"
    /\ UNCHANGED u_args
    /\ UNCHANGED <<d_vars, ct_vars, r_vars, h_vars, v_vars>>

NextFlatten == FlattenItem \/ LowerKeys

SpecFlatten == InitFlatten /\ [][NextFlatten]_vars /\ WF_vars(NextFlatten)

-----------------------------------------------------------------------------
(* Properties of the flattening *)

RECURSIVE LeafCount(_)
RECURSIVE LeafCountOf(_, _)
\* the number of scalars in a value
LeafCount(v) ==
    IF v.t \in {"dict", "list"} THEN LeafCountOf(v, 1) ELSE 1
LeafCountOf(v, i) ==
    IF i > Len(v.kids) THEN 0
    ELSE LeafCount(IF v.t = "dict" THEN v.kids[i][2] ELSE v.kids[i])
         + LeafCountOf(v, i + 1)

RECURSIVE Shape(_)
\* the nesting of objects and arrays of a value, its scalars erased and the
\* fields of an object in no order
Shape(v) ==
    IF v.t = "dict"
    THEN <<"dict", {<<v.kids[i][1], Shape(v.kids[i][2])>> : i \in 1..Len(v.kids)}>>
    ELSE IF v.t = "list"
    THEN <<"list", [i \in 1..Len(v.kids) |-> Shape(v.kids[i])]>>
    ELSE <<"leaf", <<>>>>

FlatPairs(flat) == {flat[i] : i \in 1..Len(flat)}

\* one entry per leaf
OneEntryPerLeaf == Len(u_ret.flat) = LeafCount(u_args.item)

\* no item of another shape has the same (path, value) pairs
ShapeRecoverable ==
    \A other \in FlattenItems :
        FlatPairs(flatten_item(other, <<>>)) = FlatPairs(u_ret.flat)
            => Shape(other) = Shape(u_args.item)

\* the loop of line 360 visits every flattened path
EveryPathDecided ==
    {u_ret.flat[i][1] : i \in 1..Len(u_ret.flat)}
        = {u_ret.flat_lc[i][2][1] : i \in 1..Len(u_ret.flat_lc)}

\* C19: flatten_item yields exactly one entry per leaf of a nested object,
\* under pairwise distinct paths; the nesting of objects and arrays, empty
\* ones included, can be recovered from the (path, value) pairs; and the
\* classification decides every one of the paths.
C19_Original ==
    u_pc = "done" =>
        /\ OneEntryPerLeaf
        /\ ShapeRecoverable
        /\ EveryPathDecided

-----------------------------------------------------------------------------
(* vector_embedding.chunk_text, the chunker of process_upload_task, as a *)
(* process: one action per loop iteration                                *)

MaxLegacyLen == 3

\* the list of chunks that fits in memory: more than any text of the runs
\* needs when every iteration moves forward
LegacyMemory == MaxLegacyLen + 2

\* text[a:b] for any integers a and b
PySlice(text, a, b) ==
    LET n == Len(text)
        lo == IF a < 0 THEN Max(a + n, 0) ELSE Min(a, n)
        hi == IF b < 0 THEN Max(b + n, 0) ELSE Min(b, n)
    IN  SubSeq(text, lo + 1, hi)

\* vector_embedding.py line 116: content is stripped and not empty
LegacyTexts ==
    {t \in StringsUpTo({"x", " "}, MaxLegacyLen) :
        t # <<>> /\ t[1] # " " /\ t[Len(t)] # " "}

\* lines 103-104: int() of the form fields, passed on as they are (line 131)
InitLegacy ==
    /\ IdleHttp /\ IdleUtil /\ IdleDecide /\ IdleRun /\ IdleVideo
    /\ ct_pc = "call"
    /\ ct_text \in LegacyTexts
    /\ ct_chunk_size \in 1..MaxLegacyLen
    /\ ct_chunk_overlap \in 0..MaxLegacyLen
    /\ ct_overlap_arg = ct_chunk_overlap
    /\ ct_step = 0 /\ ct_start = 0
    /\ ct_chunks = <<>> /\ ct_windows = <<>>

\* vector_embedding.py lines 14-15
LegacyEnter ==
    /\ ct_pc = "call"
    /\ ct_chunks' = <<>>
    /\ ct_start' = 0
    /\ ct_step' = ct_chunk_size - ct_chunk_overlap
    /\ ct_pc' = "loop"
    /\ UNCHANGED <<ct_text, ct_chunk_size, ct_chunk_overlap, ct_overlap_arg,
                   ct_windows>>
    /\ UNCHANGED <<d_vars, r_vars, h_vars, u_vars, v_vars>>

\* vector_embedding.py lines 16-19: one iteration
LegacyLoop ==
    /\ ct_pc = "loop"
    /\ ct_start < Len(ct_text)
    /\ Len(ct_chunks) < LegacyMemory
    /\ LET end == Min(ct_start + ct_chunk_size, Len(ct_text))
       IN  /\ ct_chunks' = Append(ct_chunks, PySlice(ct_text, ct_start, end))
           /\ ct_windows' = Append(ct_windows, <<ct_start, end, TRUE>>)
    /\ ct_start' = ct_start + ct_step
    /\ UNCHANGED <<ct_pc, ct_text, ct_chunk_size, ct_chunk_overlap, ct_step,
                   ct_overlap_arg>>
    /\ UNCHANGED <<d_vars, r_vars, h_vars, u_vars, v_vars>>

\* line 18 when the list cannot grow any more: MemoryError
LegacyExhausted ==
    /\ ct_pc = "loop"
    /\ ct_start < Len(ct_text)
    /\ Len(ct_chunks) >= LegacyMemory
    /\ ct_pc' = "memory_error"
    /\ UNCHANGED <<ct_text, ct_chunk_size, ct_chunk_overlap, ct_step, ct_start,
                   ct_chunks, ct_overlap_arg, ct_windows>>
    /\ UNCHANGED <<d_vars, r_vars, h_vars, u_vars, v_vars>>

\* vector_embedding.py lines 16 and 20
LegacyReturn ==
    /\ ct_pc = "loop"
    /\ ct_start >= Len(ct_text)
    /\ ct_pc' = "done"
    /\ UNCHANGED <<ct_text, ct_chunk_size, ct_chunk_overlap, ct_step, ct_start,
                   ct_chunks, ct_overlap_arg, ct_windows>>
    /\ UNCHANGED <<d_vars, r_vars, h_vars, u_vars, v_vars>>

NextLegacy == LegacyEnter \/ LegacyLoop \/ LegacyExhausted \/ LegacyReturn

SpecLegacy == InitLegacy /\ [][NextLegacy]_vars /\ WF_vars(NextLegacy)

-----------------------------------------------------------------------------
(* Properties of the chunker of process_upload_task *)

\* C22: vector_embedding.chunk_text, called with a chunk_size > 0 and a
\* chunk_overlap >= 0, also one that is not below chunk_size, returns for
\* every text: every call reaches its return statement, and its loop never
\* goes on until the list of chunks exhausts the memory.
C22_Original ==
    /\ [](ct_pc # "memory_error")
    /\ (ct_pc = "call") ~> (ct_pc = "done")

-----------------------------------------------------------------------------
(* format_video/routes.py: the video jobs.  A job is a row of the table
   format_jobs and a thread _run_format_job; all threads share the table and
   the directory OUTPUT_DIR.  An id stands for the uuid of a job and, as the
   ids are given in the order of the submissions, for its created_at too.  A
   size is kept as the list of its parts between the commas.  *)

\* routes.py line 132: the argument of _keep_last_n_jobs
KEEP == 10

\* how many submissions a run of the jobs has at most
MaxVideoJobs == 2

\* how many submissions a run about the retention has: one more than KEEP
\* after the first one
MaxKeepJobs == KEEP + 1

GoodUrl == "http://videos/a.mp4"
GoneUrl == "http://videos/gone.mp4"

GoodSize == <<"1920", "1080">>
OnePartSize == <<"1080">>
WordSize == <<"w", "h">>

\* routes.py line 90: int(part) returns for the decimal parts only
IsIntPart(part) == part \in {"1920", "1080"}

VRequest(url, resize) == [video_url |-> url, resize |-> resize]

VideoRequests ==
    { VRequest("", <<<<"yt", GoodSize>>>>),
      VRequest(GoodUrl, <<>>),
      VRequest(GoodUrl, <<<<"yt", GoodSize>>>>),
      VRequest(GoodUrl, <<<<"yt", GoodSize>>, <<"ig", GoodSize>>>>),
      VRequest(GoodUrl, <<<<"yt", OnePartSize>>>>),
      VRequest(GoodUrl, <<<<"yt", WordSize>>>>),
      VRequest(GoneUrl, <<<<"yt", GoodSize>>>>) }

\* routes.py line 79: the name of the downloaded input of a job
InputName(id) == "input_" \o ToString(id) \o ".mp4"

\* routes.py line 92: the name of an output is the name of its platform
OutName(platform) == platform \o ".mp4"

\* a file of OUTPUT_DIR and the job whose thread wrote it
VFile(name, id) == [name |-> name, by |-> id]

FileNames == {f.name : f \in v_files}

\* routes.py lines 114 to 116: a download link names the output file
VLink(platform) == [platform |-> platform, file |-> OutName(platform)]

\* routes.py lines 166 to 172: the row format_submit adds
QueuedRow(id) ==
    [status |-> "queued", created_at |-> id, finished_at |-> FALSE,
     result |-> <<>>, error |-> ""]

\* a thread that format_submit has started and that has not run yet
StartedWorker(request) ==
    [pc |-> "start", video_url |-> request.video_url,
     todo |-> request.resize, download_links |-> <<>>, e |-> ""]

\* the table with one more or one changed row
PutRow(id, row) ==
    [k \in DOMAIN v_db \cup {id} |-> IF k = id THEN row ELSE v_db[k]]

AtWork == {id \in DOMAIN v_worker : v_worker[id].pc \notin {"start", "end"}}

\* the thread of job id goes to position pc
Goto(id, pc_to) == [v_worker EXCEPT ![id].pc = pc_to]

\* the thread of job id raises e: the next step is the except clause
Raise(id, e) == [v_worker EXCEPT ![id].pc = "except", ![id].e = e]

\* routes.py lines 196 to 222: what format_status answers now
StatusReply(id) ==
    IF id \notin DOMAIN v_db THEN [id |-> id, code |-> 404]
    ELSE IF v_db[id].status = "done" THEN [id |-> id, code |-> 200]
    ELSE IF v_db[id].status = "error" THEN [id |-> id, code |-> 500]
    ELSE [id |-> id, code |-> 200]

\* routes.py lines 45 to 55: the rows beyond the n newest by created_at
BeyondNewest(n) ==
    {id \in DOMAIN v_db :
        Cardinality({k \in DOMAIN v_db :
                        v_db[k].created_at > v_db[id].created_at}) >= n}

InitVideoWith(requestLists, limit) ==
    /\ v_requests \in requestLists
    /\ v_limit = limit
    /\ v_clock = 0
    /\ v_db = <<>>
    /\ v_worker = <<>>
    /\ v_files = {}
    /\ v_accepted = {}
    /\ v_reply = NoReply
    /\ v_trans = {}
    /\ IdleHttp /\ IdleUtil /\ IdleDecide /\ IdleChunk /\ IdleRun

\* up to MaxVideoJobs submissions of any kind, every thread free to run
InitVideo ==
    InitVideoWith(UNION {[1..n -> VideoRequests] : n \in 1..MaxVideoJobs},
                  MaxVideoJobs)

\* MaxKeepJobs submissions of one platform whose size has one part, the
\* video of the last one out of reach, and one thread at work at a time
InitKeep ==
    InitVideoWith({[i \in 1..MaxKeepJobs |->
                      VRequest(IF i < MaxKeepJobs THEN GoodUrl ELSE GoneUrl,
                               <<<<"yt", OnePartSize>>>>)]}, 1)

\* routes.py lines 148 to 193
FormatSubmit ==
    /\ v_requests # <<>>
    /\ LET request == Head(v_requests)
           job_id == v_clock + 1
       IN  /\ v_requests' = Tail(v_requests)
           /\ IF request.video_url = "" \/ request.resize = <<>>
              THEN /\ v_reply' = [id |-> 0, code |-> 400]
                   /\ UNCHANGED <<v_clock, v_db, v_worker, v_accepted>>
              ELSE /\ v_clock' = job_id
                   /\ v_db' = PutRow(job_id, QueuedRow(job_id))
                   /\ v_worker' =
                        [k \in DOMAIN v_worker \cup {job_id} |->
                            IF k = job_id THEN StartedWorker(request)
                            ELSE v_worker[k]]
                   /\ v_accepted' = v_accepted \cup {job_id}
                   /\ v_reply' = [id |-> job_id, code |-> 202]
    /\ UNCHANGED <<v_limit, v_files, v_trans>>
    /\ UNCHANGED <<d_vars, ct_vars, r_vars, h_vars, u_vars>>

\* routes.py lines 196 to 222, asked for a known id or for one never given
FormatStatus ==
    /\ \E id \in 1..(v_clock + 1) :
          /\ v_reply # StatusReply(id)
          /\ v_reply' = StatusReply(id)
    /\ UNCHANGED <<v_requests, v_limit, v_clock, v_db, v_worker, v_files,
                   v_accepted, v_trans>>
    /\ UNCHANGED <<d_vars, ct_vars, r_vars, h_vars, u_vars>>

\* what a step of a thread leaves alone besides the table and the directory
WorkerFrame ==
    /\ UNCHANGED <<v_requests, v_limit, v_clock, v_accepted, v_reply>>
    /\ UNCHANGED <<d_vars, ct_vars, r_vars, h_vars, u_vars>>

\* routes.py lines 69 to 73
RunBegin ==
    /\ \E id \in DOMAIN v_worker :
          /\ v_worker[id].pc = "start"
          /\ Cardinality(AtWork) < v_limit
          /\ IF id \notin DOMAIN v_db
             THEN /\ v_worker' = Goto(id, "end")
                  /\ UNCHANGED <<v_db, v_trans>>
             ELSE /\ v_db' = [v_db EXCEPT ![id].status = "processing"]
                  /\ v_trans' =
                        v_trans \cup {<<id, v_db[id].status, "processing">>}
                  /\ v_worker' = Goto(id, "clear")
    /\ UNCHANGED v_files
    /\ WorkerFrame

\* routes.py line 76 and lines 37 to 43
ClearOutputsFolder ==
    /\ \E id \in DOMAIN v_worker :
          /\ v_worker[id].pc = "clear"
          /\ v_files' = {}
          /\ v_worker' = Goto(id, "download")
    /\ UNCHANGED <<v_db, v_trans>>
    /\ WorkerFrame

\* routes.py lines 79 to 81 and 57 to 63: raise_for_status ends the try
DownloadTo ==
    /\ \E id \in DOMAIN v_worker :
          /\ v_worker[id].pc = "download"
          /\ IF v_worker[id].video_url = GoodUrl
             THEN /\ v_files' = {f \in v_files : f.name # InputName(id)}
                                  \cup {VFile(InputName(id), id)}
                  /\ v_worker' = Goto(id, "resize")
             ELSE /\ v_worker' = Raise(id, "HTTPError")
                  /\ UNCHANGED v_files
    /\ UNCHANGED <<v_db, v_trans>>
    /\ WorkerFrame

\* routes.py lines 85 to 116, one turn of the loop: a size that has not two
\* parts is passed over, int raises on a part that is no number, ffmpeg
\* raises without its input and else overwrites the output, and the read of
\* job.base_url raises once the row of the job is gone
Resize ==
    /\ \E id \in DOMAIN v_worker :
          /\ v_worker[id].pc = "resize"
          /\ v_worker[id].todo # <<>>
          /\ LET platform == Head(v_worker[id].todo)[1]
                 parts == Head(v_worker[id].todo)[2]
                 rest == [v_worker EXCEPT ![id].todo = Tail(@)]
             IN  IF Len(parts) # 2
                 THEN /\ v_worker' = rest
                      /\ UNCHANGED v_files
                 ELSE IF \E i \in 1..2 : ~IsIntPart(parts[i])
                 THEN /\ v_worker' = Raise(id, "ValueError")
                      /\ UNCHANGED v_files
                 ELSE IF InputName(id) \notin FileNames
                 THEN /\ v_worker' = Raise(id, "ffmpeg.Error")
                      /\ UNCHANGED v_files
                 ELSE /\ v_files' =
                            {f \in v_files : f.name # OutName(platform)}
                               \cup {VFile(OutName(platform), id)}
                      /\ IF id \notin DOMAIN v_db
                         THEN v_worker' = Raise(id, "ObjectDeletedError")
                         ELSE v_worker' =
                                [rest EXCEPT ![id].download_links =
                                                Append(@, VLink(platform))]
    /\ UNCHANGED <<v_db, v_trans>>
    /\ WorkerFrame

\* routes.py lines 119 to 123
RemoveInput ==
    /\ \E id \in DOMAIN v_worker :
          /\ v_worker[id].pc = "resize"
          /\ v_worker[id].todo = <<>>
          /\ v_files' = {f \in v_files : f.name # InputName(id)}
          /\ v_worker' = Goto(id, "update")
    /\ UNCHANGED <<v_db, v_trans>>
    /\ WorkerFrame

\* routes.py lines 126 to 129: the commit raises once the row is gone
JobDone ==
    /\ \E id \in DOMAIN v_worker :
          /\ v_worker[id].pc = "update"
          /\ IF id \notin DOMAIN v_db
             THEN /\ v_worker' = Raise(id, "StaleDataError")
                  /\ UNCHANGED <<v_db, v_trans>>
             ELSE /\ v_db' = [v_db EXCEPT
                                ![id].status = "done",
                                ![id].result = v_worker[id].download_links,
                                ![id].finished_at = TRUE]
                  /\ v_trans' = v_trans \cup {<<id, v_db[id].status, "done">>}
                  /\ v_worker' = Goto(id, "keep")
    /\ UNCHANGED v_files
    /\ WorkerFrame

\* routes.py line 132 and lines 45 to 55, the session and its commit at work
KeepLastNJobs ==
    /\ \E id \in DOMAIN v_worker :
          /\ v_worker[id].pc = "keep"
          /\ v_db' = [k \in DOMAIN v_db \ BeyondNewest(KEEP) |-> v_db[k]]
          /\ v_worker' = Goto(id, "end")
    /\ UNCHANGED <<v_files, v_trans>>
    /\ WorkerFrame

\* routes.py line 132 and lines 47 to 53: the SQLite file is locked by
\* another writer and the query or the commit raises inside the try
KeepRaises ==
    /\ \E id \in DOMAIN v_worker :
          /\ v_worker[id].pc = "keep"
          /\ v_worker' = Raise(id, "OperationalError")
    /\ UNCHANGED <<v_db, v_files, v_trans>>
    /\ WorkerFrame

\* routes.py lines 134 to 145
RunExcept ==
    /\ \E id \in DOMAIN v_worker :
          /\ v_worker[id].pc = "except"
          /\ IF id \notin DOMAIN v_db
             THEN UNCHANGED <<v_db, v_trans>>
             ELSE /\ v_db' = [v_db EXCEPT
                                ![id].status = "error",
                                ![id].error = v_worker[id].e,
                                ![id].finished_at = TRUE]
                  /\ v_trans' = v_trans \cup {<<id, v_db[id].status, "error">>}
          /\ v_worker' = Goto(id, "end")
    /\ UNCHANGED v_files
    /\ WorkerFrame

RunFormatJob ==
    \/ RunBegin \/ ClearOutputsFolder \/ DownloadTo \/ Resize \/ RemoveInput
    \/ JobDone \/ KeepLastNJobs \/ RunExcept

NextVideo == FormatSubmit \/ FormatStatus \/ RunFormatJob \/ KeepRaises

SpecVideo == InitVideo /\ [][NextVideo]_vars

\* the retention alone: every query and commit of the table goes through
NextKeep == FormatSubmit \/ RunFormatJob

SpecKeep == InitKeep /\ [][NextKeep]_vars

-----------------------------------------------------------------------------
(* Properties of the video jobs *)

TerminalStatus == {"done", "error"}

LifecycleSteps ==
    {<<"queued", "processing">>, <<"processing", "done">>,
     <<"processing", "error">>}

\* C23: the stored status of a job changes along queued -> processing -> done
\* or processing -> error only, so a job that is done is never made an error
\* afterwards, also when the keep-last-10 cleanup after the completion fails;
\* and finished_at is set exactly in the rows whose status is done or error.
C23_Original ==
    /\ \A t \in v_trans : <<t[2], t[3]>> \in LifecycleSteps
    /\ \A id \in DOMAIN v_db :
          v_db[id].finished_at <=> v_db[id].status \in TerminalStatus

\* the thread of job id is between its download and its last commit
Producing(id) == v_worker[id].pc \in {"resize", "update"}

\* the step is one of the thread of job id
OwnStep(id) == v_worker'[id] # v_worker[id]

\* a file of a job at work outlasts every step of another thread under its name
FileNotRemoved ==
    \A f \in v_files :
        (Producing(f.by) /\ ~OwnStep(f.by)) => f.name \in {g.name : g \in v_files'}

\* no step of another thread puts its own file in the place of such a file
FileNotOverwritten ==
    \A f \in v_files :
        (Producing(f.by) /\ ~OwnStep(f.by)) =>
            ~ \E g \in v_files' : g.name = f.name /\ g.by # f.by

\* the step that makes a job done leaves every file of its links in the
\* directory, as written by the job
DoneHasItsFiles ==
    \A id \in DOMAIN v_db :
        (v_db[id].status # "done" /\ id \in DOMAIN v_db'
            /\ v_db'[id].status = "done") =>
            \A i \in 1..Len(v_db'[id].result) :
                VFile(v_db'[id].result[i].file, id) \in v_files'

\* C25: of two jobs whose threads overlap in time, the start of one, which
\* clears the shared output directory, never removes the downloaded input or
\* the outputs made so far of the other, and outputs of one name never
\* overwrite each other: when a job becomes done, every file named in its
\* download links exists and was produced by that job.
C25_Original ==
    [][FileNotRemoved /\ FileNotOverwritten /\ DoneHasItsFiles]_vars

\* the job has reached done or error
Finished(id) == \E t \in v_trans : t[1] = id /\ t[3] \in TerminalStatus

\* C24: whatever the interleaving of submissions and threads, a job that was
\* accepted (202 with its format_job_id) and has not yet reached done or
\* error is never deleted by the keep-last-10 cleanup of another job: its row
\* is in the table, format_status never answers 404 for its id, and its
\* thread never ends without having recorded done or error.
C24_Original ==
    \A id \in v_accepted :
        ~Finished(id) =>
            /\ id \in DOMAIN v_db
            /\ StatusReply(id).code # 404
            /\ v_worker[id].pc # "end"

====
